---------------------------- MODULE Spec2Model ----------------------------
(***************************************************************************)
(* Model of the event bus of ESP-Reveiver: the Event value and its         *)
(* destructor (main/eventbus/EventBus.h), the TinyEventBus registry,       *)
(* fan-out, dispatch queue and dispatcher task                             *)
(* (main/eventbus/TinyEventBus.h), the topic protocol                      *)
(* (main/eventbus/EventProtocol.h) and FlowGraph with its combinators     *)
(* (main/eventbus/FlowGraph.h).                                            *)
(*                                                                         *)
(* The specifications share the variables:                                 *)
(*   SpecQ   - producers calling publishToQueue / publishFromISR           *)
(*             concurrently with the dispatcher task;                      *)
(*   SpecReg - subscribe / unsubscribe / task-context publish on the       *)
(*             listener table;                                             *)
(*   SpecFlow - a FlowGraph installing flows with when on that table;      *)
(*   SpecComb - flows built from the synchronous combinators, executed;    *)
(*   SpecAsync - flows built from async_blocking and                       *)
(*             async_blocking_with_event, with their worker tasks;         *)
(*   SpecLife - construction and destruction of a FlowGraph;               *)
(*   SpecRace - a fan-out running while another task subscribes and        *)
(*             unsubscribes;                                               *)
(*   SpecSub2 - two tasks calling subscribe at the same time;              *)
(*   SpecWhen2 - a when call running while other tasks subscribe;          *)
(*   SpecBegin - begin called more than once on one bus;                   *)
(*   SpecOps - one installed flow per operator, as in the operator tests;  *)
(*   SpecGraphs - two FlowGraphs on one bus;                               *)
(*   SpecAsyncFair - an async flow under fair scheduling of its worker;    *)
(*   SpecEvent - Event objects copied, assigned, cleaned up and destroyed. *)
(*                                                                         *)
(* A TopicMask (uint32_t bitmap) is modelled as the set of its set bit     *)
(* positions, a subset of 0..31: m & b # 0 is m \cap b # {}, and 0 is {}.  *)
(* A pointer is a natural number, 0 being nullptr.                         *)
(***************************************************************************)
EXTENDS Integers, Sequences, FiniteSets, TLC

-----------------------------------------------------------------------------
(* Bounds of the model. *)

\* Length of the dispatch queue in the model (EBUS_DISPATCH_QUEUE_LEN is 32
\* in the source; the model scales it down).
QueueLen == 2

\* Number of listener slots in the model (EBUS_MAX_LISTENERS is 8 in the
\* source; the model scales it down).
MaxListeners == 4

\* Number of publishToQueue calls the task producer makes at most.
MaxPub == 3

\* Number of publishFromISR calls the interrupt producer makes at most.
MaxPubIsr == 2

\* Number of subscribe calls made by user code at most.
MaxSubscribes == 3

\* Number of when calls made at most.
MaxWhen == 2

-----------------------------------------------------------------------------
(* Program constants. *)

TOPIC_WIFI_CONNECTED == 0
TOPIC_MDNS_FOUND     == 2
TOPIC_MDNS_FAILED    == 3
TOPIC_MQTT_CONNECTED == 4
TOPIC_MQTT_DISCONNECTED == 5
TOPIC_SYSTEM_ERROR   == 13
TOPIC_TIMER          == 15
TOPIC__ASYNC_RESULT  == 31
TOPIC_RETRY_RESOLVE  == 2001
TOPIC_SAFE_MODE_ENTER == 2002

\* constexpr uint32_t MASK_ALL = 0xFFFFFFFFu: all 32 bits.
MASK_ALL == 0..31

\* FlowGraph::MAX_SUBS
MAX_SUBS == 16

\* constexpr uint32_t bit(uint16_t topic)
bit(topic) == IF topic < 32 THEN {topic} ELSE {}

Producers == {1, 2}

Slots == 0..(MaxListeners - 1)

\* Addresses passed as the user pointer: this (the FlowGraph) and the
\* UserPair allocated by the k-th when call; user code passes 1, 2, ...
THIS == 99
THIS2 == 98
UserPair(k) == 100 + k

\* Event() : type(0), i32(0), ptr(nullptr), cleanup(nullptr), auto_cleanup(true)
DefaultEvent ==
    [type |-> 0, i32 |-> 0, ptr |-> 0, cleanup |-> FALSE, auto_cleanup |-> TRUE]

\* Event(t, data, p, c, auto_clean = true)
MkEvent(t, data, p, c) ==
    [type |-> t, i32 |-> data, ptr |-> p, cleanup |-> c, auto_cleanup |-> TRUE]

\* The inline scalar of the s-th event (s = 0, 1, ...) of producer p, and the
\* address of the payload allocated for it.
ScalarOf(p, s) == (p - 1) * 100 + s
PtrOf(p, s) == ScalarOf(p, s) + 1
Ptrs == {PtrOf(1, s) : s \in 0..(MaxPub - 1)}

\* Release counts of a payload by the place the release ran at.
NoRelease == [publisher |-> 0, drop |-> 0, dispatcher |-> 0]
Releases(r) == r.publisher + r.drop + r.dispatcher

\* struct Node default member initialisers; ls_[h] = {}
EmptyNode ==
    [inUse |-> FALSE, h |-> "null", user |-> 0, mask |-> MASK_ALL,
     pred |-> "null", predUser |-> 0]

\* The publishing task outside publish: no slot field read.
IdleReader ==
    [pc |-> "idle", i |-> 0, h |-> "null", user |-> 0, mask |-> {},
     pred |-> "null"]

\* No operation on an Event object yet.
NoOp ==
    [op |-> "none", x |-> 0, y |-> 0, ran |-> <<>>,
     xBefore |-> DefaultEvent, yBefore |-> DefaultEvent, was |-> FALSE]

\* The tasks that call subscribe concurrently, and a task outside subscribe.
Scanners == {1, 2}
IdleScan == [pc |-> "idle", i |-> 0, ret |-> -2]

\* No when call has been entered.
IdleWhen ==
    [pc |-> "idle", call |-> 0, i |-> 0, h |-> -2, topic |-> 0, before |-> 0]

-----------------------------------------------------------------------------
VARIABLES
    \* TinyEventBus
    q_,          \* "null" or "created": the queue handle
    queue,       \* contents of the FreeRTOS queue: Seq of Event (byte copies)
    task_,       \* TRUE when the dispatcher task exists
    begun,       \* begin has been called
    beginOk,     \* what begin returned
    prioLow,     \* the dispatcher's priority is below the producers'
    ls_,         \* listener table: [0..MaxListeners-1 -> Node]
    \* producers (one call of publishToQueue / publishFromISR at a time each)
    pc,          \* position of each producer
    ev,          \* the publisher's own Event object
    result,      \* local BaseType_t result of the first send
    sent,        \* the call in progress has placed its event in the queue
    calls,       \* number of completed calls
    earlyCall,   \* some call was made while q_ was still null
    \* dispatcher task
    dpc,         \* "recv" or "dtor"
    de,          \* local Event e of dispatch()
    \* observations
    delivered,   \* inline scalars of the events fanned out by the dispatcher
    released,    \* per payload pointer: the places where its release ran
    invoked,     \* handler invocations of the most recent fan-out
    predCalls,   \* predicate evaluations of the most recent fan-out
    lastEvent,   \* the event of the most recent task-context publish
    fresh,       \* a task-context publish has returned and the listener
                 \* table is still the one it ran over (the three logs above
                 \* are dropped when the table changes)
    regCount,    \* number of user subscribe calls so far
    unsubbed,    \* some unsubscribe call has cleared an in-use slot
    \* FlowGraph
    fgAlive,     \* the FlowGraph has been constructed
    asyncRouter_,
    subs_,       \* Seq of [h, flow]; count_ is its length
    count_,
    whenTopic,   \* topic each stored flow was installed for
    fgDestroyed, \* the FlowGraph has been destroyed
    store,       \* the heap Flow objects: store[k] is *subs_[k].flow
    deleted,     \* deleted[k]: how many times store[k] has been deleted
    \* flows at run time
    trace,       \* what the tasks did, in the order it happened
    tasks,       \* the worker tasks spawned by async flows, each with its
                 \* TaskPack, AsyncCtx and ResultPack
    freed,       \* the release actions run by flows: Seq of [ptr, site]
    trigCount,   \* number of events published by application code
    \* a fan-out running while another task subscribes and unsubscribes
    reader,      \* the publishing task: position in the loop and the fields
                 \* of the slot it has read so far
    used,        \* the handler invocations made by that fan-out
    history,     \* per user pointer: the registration subscribe made with it
    gone,        \* handles whose unsubscribe has returned, until subscribe
                 \* hands the slot out again
    \* Event objects of user code
    evs,         \* the Event objects that exist: [live ids -> Event]
    made,        \* number of Event objects constructed from arguments so far
    lastOp,      \* the last operation on an Event object, the objects it
                 \* found and the payloads whose release it ran
    cleaned,     \* ids of the objects manual_cleanup was called on since
                 \* they were constructed or assigned to
    \* a second FlowGraph on the bus
    fg2,         \* [alive, asyncRouter_] of the second FlowGraph
    \* subscribe calls running concurrently
    scan,        \* per calling task: position in subscribe, loop index, and
                 \* the handle returned
    \* begin called again
    beginLog,    \* [calls, queues, tasks]: the begin calls made, the queues
                 \* xQueueCreate has made for the bus and the dispatcher
                 \* tasks xTaskCreate has started
    \* a when call running while other tasks subscribe
    wh           \* position in when, the bus call it is in (1: placeholder,
                 \* 2: flow handler), loop index of that call, local h,
                 \* the topic, and the listeners of the graph and of user
                 \* code that were registered when it was entered

busVars  == <<q_, queue, task_, begun, beginOk, prioLow>>
prodVars == <<pc, ev, result, sent, calls, earlyCall>>
dispVars == <<dpc, de, delivered>>
regVars  == <<ls_, regCount, unsubbed>>
pubVars  == <<invoked, predCalls, lastEvent, fresh>>
fgVars   == <<fgAlive, asyncRouter_, subs_, count_, whenTopic, fgDestroyed,
             store, deleted>>
runVars  == <<trace, tasks, freed, trigCount>>
raceVars == <<reader, used, history, gone>>
evVars   == <<evs, made, lastOp, cleaned>>
conVars  == <<fg2, scan, beginLog, wh>>

vars == <<q_, queue, task_, begun, beginOk, prioLow, ls_, pc, ev, result,
          sent, calls, earlyCall, dpc, de, delivered, released, invoked, predCalls,
          lastEvent, fresh, regCount, unsubbed, fgAlive, asyncRouter_,
          subs_, count_, whenTopic, fgDestroyed, store, deleted, trace,
          tasks, freed, trigCount, reader, used, history, gone, evs, made,
          lastOp, cleaned, fg2, scan, beginLog, wh>>

-----------------------------------------------------------------------------
(* Event *)

\* ~Event(): if (auto_cleanup && cleanup && ptr) cleanup(ptr).  rel is the
\* release record, site the place the destructor runs at.
EventDtor(e, rel, site) ==
    IF e.auto_cleanup /\ e.cleanup /\ e.ptr # 0
    THEN [rel EXCEPT ![e.ptr][site] = @ + 1]
    ELSE rel

-----------------------------------------------------------------------------
(* TinyEventBus::publish: the fan-out *)

\* The predicates user code registers: test_predicate is e.i32 > 5.
PredEval(pred, e) ==
    CASE pred = "gt5" -> e.i32 > 5
      [] OTHER -> FALSE

\* A fan-out that never looks at the mask.
MaskPass_Always(n, e) == TRUE

\* const uint32_t b = (e.type < 32) ? (1u << e.type) : 0u;
\* if (b && !(n.mask & b)) continue;
MaskPass(n, e) ==
    LET b == IF e.type < 32 THEN {e.type} ELSE {}
    IN ~(b # {} /\ (n.mask \cap b) = {})

\* A fan-out that never looks at the result of the predicate.
PredPass_Always(n, e) == TRUE

\* if (n.pred && !n.pred(e, n.predUser)) continue;
PredPass(n, e) == ~(n.pred # "null" /\ ~PredEval(n.pred, e))

RECURSIVE FanOutFrom(_, _, _, _)
\* The loop of publish from slot i on; acc = [inv, preds] collects the handler
\* invocations and the predicate evaluations in the order they happen.
FanOutFrom(i, ls, e, acc) ==
    IF i >= MaxListeners THEN acc
    ELSE LET n == ls[i]
             withPred == IF n.pred # "null" THEN Append(acc.preds, i)
                         ELSE acc.preds
         IN IF ~n.inUse \/ n.h = "null" THEN FanOutFrom(i + 1, ls, e, acc)
            ELSE IF ~MaskPass(n, e) THEN FanOutFrom(i + 1, ls, e, acc)
            ELSE IF ~PredPass(n, e)
                 THEN FanOutFrom(i + 1, ls, e, [acc EXCEPT !.preds = withPred])
            ELSE FanOutFrom(i + 1, ls, e,
                   [inv |-> Append(acc.inv,
                                   [slot |-> i, user |-> n.user, h |-> n.h]),
                    preds |-> withPred])

FanOut(ls, e) == FanOutFrom(0, ls, e, [inv |-> <<>>, preds |-> <<>>])

-----------------------------------------------------------------------------
(* TinyEventBus::begin *)

\* The record of a begin call: one more call, one more queue when
\* xQueueCreate succeeded, and then one more task when xTaskCreate did.
BeginLogged(log, queueOk, taskOk) ==
    [calls |-> log.calls + 1,
     queues |-> log.queues + (IF queueOk THEN 1 ELSE 0),
     tasks |-> log.tasks + (IF queueOk /\ taskOk THEN 1 ELSE 0)]

\* A begin that reports the creation of the queue only.
Begin_QueueOnly(queueOk, taskOk, low) ==
    /\ ~begun
    /\ begun' = TRUE
    /\ q_' = IF queueOk THEN "created" ELSE "null"
    /\ queue' = <<>>
    /\ task_' = (queueOk /\ taskOk)
    /\ beginOk' = queueOk
    /\ prioLow' = low
    /\ beginLog' = BeginLogged(beginLog, queueOk, taskOk)
    /\ UNCHANGED <<evVars, fg2, scan, wh, runVars, raceVars,
                   prodVars, dispVars, regVars, pubVars, fgVars, released>>

\* begin: xQueueCreate may fail (return false, no task), xTaskCreate may fail.
\* prio is the dispatcher's priority: low means it runs only while every
\* producer is blocked.
Begin(queueOk, taskOk, low) ==
    /\ ~begun
    /\ begun' = TRUE
    /\ q_' = IF queueOk THEN "created" ELSE "null"
    /\ queue' = <<>>
    /\ task_' = (queueOk /\ taskOk)
    /\ beginOk' = (queueOk /\ taskOk)
    /\ prioLow' = low
    /\ beginLog' = BeginLogged(beginLog, queueOk, taskOk)
    /\ UNCHANGED <<evVars, fg2, scan, wh, runVars, raceVars,
                   prodVars, dispVars, regVars, pubVars, fgVars, released>>

\* Number of begin calls on the bus.
MaxBegin == 2

\* begin called on a bus whatever was called on it before: nothing in begin
\* tests q_ or task_.  q_ = xQueueCreate(..) overwrites the handle, by a new
\* empty queue or by null; the queue it held stays allocated, with its
\* events.  When the queue was created xTaskCreate starts one more
\* dispatcher task and writes task_ on success.  In the first call on a bus
\* this is Begin.
BeginAgain(queueOk, taskOk, low) ==
    /\ beginLog.calls < MaxBegin
    /\ begun' = TRUE
    /\ q_' = IF queueOk THEN "created" ELSE "null"
    /\ queue' = <<>>
    /\ task_' = (task_ \/ (queueOk /\ taskOk))
    /\ beginOk' = (queueOk /\ taskOk)
    /\ prioLow' = low
    /\ beginLog' = BeginLogged(beginLog, queueOk, taskOk)
    /\ UNCHANGED <<evVars, fg2, scan, wh, runVars, raceVars,
                   prodVars, dispVars, regVars, pubVars, fgVars, released>>

-----------------------------------------------------------------------------
(* Producers: publishToQueue / publishFromISR *)

\* The API each producer uses: producer 1 is a task calling publishToQueue,
\* producer 2 an interrupt handler calling publishFromISR.
ApiOf(p) == IF p = 1 THEN "task" ELSE "isr"

\* A send to the front of the queue instead of its back.
QueueSendToFront(q, e) == <<e>> \o q

\* xQueueSend / xQueueSendFromISR on a queue with room: the item is copied
\* byte by byte to the back of the queue.
QueueSend(q, e) == Append(q, e)

QuotaOf(p) == IF p = 1 THEN MaxPub ELSE MaxPubIsr

\* The task producer publishes Event{TOPIC_TIMER, i, data, cleanup} with a
\* payload it allocated; interrupt handlers do not allocate: their events carry
\* the inline scalar only (publishFromISR(Event{TOPIC_TIMER, i, nullptr})).
Owns(p) == ApiOf(p) = "task"

\* The caller builds Event{TOPIC_TIMER, i, data, cleanup} and calls the publish
\* function, which returns at once when q_ is null and else does the first
\* xQueueSend(q_, &e, 0) / xQueueSendFromISR: the bytes of e are copied into
\* the queue when there is room, else errQUEUE_FULL is reported.
TrySend(p) ==
    /\ pc[p] = "ready"
    /\ calls[p] < QuotaOf(p)
    /\ LET e == MkEvent(TOPIC_TIMER, ScalarOf(p, calls[p]),
                        IF Owns(p) THEN PtrOf(p, calls[p]) ELSE 0, Owns(p))
       IN /\ ev' = [ev EXCEPT ![p] = e]
          /\ earlyCall' = (earlyCall \/ q_ = "null")
          /\ IF q_ = "null"
             THEN /\ queue' = queue
                  /\ result' = [result EXCEPT ![p] = "noq"]
                  /\ sent' = [sent EXCEPT ![p] = FALSE]
                  /\ pc' = [pc EXCEPT ![p] = "end"]
             ELSE IF Len(queue) < QueueLen
             THEN /\ queue' = QueueSend(queue, e)
                  /\ result' = [result EXCEPT ![p] = "pdTRUE"]
                  /\ sent' = [sent EXCEPT ![p] = TRUE]
                  /\ pc' = [pc EXCEPT ![p] = "end"]
             ELSE /\ queue' = queue
                  /\ result' = [result EXCEPT ![p] = "errQUEUE_FULL"]
                  /\ sent' = [sent EXCEPT ![p] = FALSE]
                  /\ pc' = [pc EXCEPT ![p] = "drop"]
    /\ UNCHANGED <<evVars, conVars, runVars, raceVars,
                   q_, task_, begun, beginOk, prioLow, dispVars, regVars,
                   pubVars, fgVars, calls, released>>

\* A publish path without the drop: the oldest event stays in the queue.
DropOldest_Skip(p) ==
    /\ pc[p] = "drop"
    /\ pc' = [pc EXCEPT ![p] = "retry"]
    /\ UNCHANGED <<evVars, conVars, runVars, raceVars,
                   busVars, dispVars, regVars, pubVars, fgVars, ev, result,
                   sent, calls, earlyCall, released>>

\* dropOldestEvent / dropOldestEventFromISR: a non-blocking receive into a
\* local Event, whose destructor then runs.
DropOldest(p) ==
    /\ pc[p] = "drop"
    /\ IF queue # <<>>
       THEN /\ queue' = Tail(queue)
            /\ released' = EventDtor(Head(queue), released, "drop")
       ELSE /\ queue' = queue
            /\ released' = released
    /\ pc' = [pc EXCEPT ![p] = "retry"]
    /\ UNCHANGED <<evVars, conVars, runVars, raceVars,
                   q_, task_, begun, beginOk, prioLow, dispVars, regVars,
                   pubVars, fgVars, ev, result, sent, calls, earlyCall>>

\* The second xQueueSend, whose result is ignored.
RetrySend(p) ==
    /\ pc[p] = "retry"
    /\ IF Len(queue) < QueueLen
       THEN /\ queue' = QueueSend(queue, ev[p])
            /\ sent' = [sent EXCEPT ![p] = TRUE]
       ELSE /\ queue' = queue
            /\ sent' = sent
    /\ pc' = [pc EXCEPT ![p] = "end"]
    /\ UNCHANGED <<evVars, conVars, runVars, raceVars,
                   q_, task_, begun, beginOk, prioLow, dispVars, regVars,
                   pubVars, fgVars, ev, result, calls, earlyCall, released>>

PublishToQueue_Send(p)  == ApiOf(p) = "task" /\ TrySend(p)
PublishToQueue_Drop(p)  == ApiOf(p) = "task" /\ DropOldest(p)
PublishToQueue_Retry(p) == ApiOf(p) = "task" /\ RetrySend(p)
PublishFromISR_Send(p)  == ApiOf(p) = "isr" /\ TrySend(p)
PublishFromISR_Drop(p)  == ApiOf(p) = "isr" /\ DropOldest(p)
PublishFromISR_Retry(p) == ApiOf(p) = "isr" /\ RetrySend(p)

\* The publish function has returned; the caller's Event goes out of scope.
PubReturn(p) ==
    /\ pc[p] = "end"
    /\ released' = EventDtor(ev[p], released, "publisher")
    /\ ev' = [ev EXCEPT ![p] = DefaultEvent]
    /\ calls' = [calls EXCEPT ![p] = @ + 1]
    /\ pc' = [pc EXCEPT ![p] = "ready"]
    /\ UNCHANGED <<evVars, conVars, runVars, raceVars,
                   busVars, dispVars, regVars, pubVars, fgVars, result, sent,
                   earlyCall>>

\* The producer blocks for good (vTaskDelay after its burst).
ProducerBlock(p) ==
    /\ pc[p] = "ready"
    /\ pc' = [pc EXCEPT ![p] = "done"]
    /\ UNCHANGED <<evVars, conVars, runVars, raceVars,
                   busVars, dispVars, regVars, pubVars, fgVars, ev, result,
                   sent, calls, earlyCall, released>>

-----------------------------------------------------------------------------
(* Dispatcher task *)

\* Fixed-priority scheduling: a dispatcher of lower priority runs only while
\* every producer is blocked.
DispatcherMayRun == task_ /\ (~prioLow \/ \A p \in Producers : pc[p] = "done")

\* dispatch(): Event e; xQueueReceive(q_, &e, portMAX_DELAY); publish(e)
Dispatch ==
    /\ DispatcherMayRun
    /\ dpc = "recv"
    /\ queue # <<>>
    /\ de' = Head(queue)
    /\ queue' = Tail(queue)
    /\ invoked' = FanOut(ls_, Head(queue)).inv
    /\ predCalls' = FanOut(ls_, Head(queue)).preds
    /\ delivered' = Append(delivered, Head(queue).i32)
    /\ dpc' = "dtor"
    /\ UNCHANGED <<evVars, conVars, runVars, raceVars,
                   q_, task_, begun, beginOk, prioLow, prodVars, regVars,
                   lastEvent, fresh, fgVars, released>>

\* End of the loop body: the destructor of the local Event e.
DispatchEnd ==
    /\ DispatcherMayRun
    /\ dpc = "dtor"
    /\ released' = EventDtor(de, released, "dispatcher")
    /\ de' = DefaultEvent
    /\ dpc' = "recv"
    /\ UNCHANGED <<evVars, conVars, runVars, raceVars,
                   busVars, prodVars, regVars, pubVars, fgVars, delivered>>

-----------------------------------------------------------------------------
(* SpecQ *)

\* The bus after construction and one subscribe(handler, nullptr, MASK_ALL),
\* the fixture of the queue tests; begin has not been called yet.
InitRest ==
    /\ q_ = "null" /\ queue = <<>> /\ task_ = FALSE
    /\ begun = FALSE /\ beginOk = FALSE /\ prioLow = FALSE
    /\ pc = [p \in Producers |-> "ready"]
    /\ ev = [p \in Producers |-> DefaultEvent]
    /\ result = [p \in Producers |-> "none"]
    /\ sent = [p \in Producers |-> FALSE]
    /\ calls = [p \in Producers |-> 0]
    /\ earlyCall = FALSE
    /\ dpc = "recv" /\ de = DefaultEvent /\ delivered = <<>>
    /\ released = [x \in Ptrs |-> NoRelease]
    /\ invoked = <<>> /\ predCalls = <<>>
    /\ lastEvent = DefaultEvent /\ fresh = FALSE
    /\ regCount = 0 /\ unsubbed = FALSE
    /\ fgAlive = FALSE /\ asyncRouter_ = -1 /\ subs_ = <<>> /\ count_ = 0
    /\ whenTopic = <<>>
    /\ fgDestroyed = FALSE /\ store = <<>> /\ deleted = <<>>
    /\ trace = <<>> /\ tasks = <<>> /\ freed = <<>> /\ trigCount = 0
    /\ reader = IdleReader /\ used = <<>> /\ history = <<>> /\ gone = {}
    /\ evs = <<>> /\ made = 0 /\ lastOp = NoOp /\ cleaned = {}
    /\ fg2 = [alive |-> FALSE, asyncRouter_ |-> -1]
    /\ scan = [t \in Scanners |-> IdleScan]
    /\ beginLog = [calls |-> 0, queues |-> 0, tasks |-> 0]
    /\ wh = IdleWhen

InitQ ==
    /\ InitRest
    /\ ls_ = [i \in Slots |->
                IF i = 0 THEN [inUse |-> TRUE, h |-> "handler", user |-> 1,
                               mask |-> MASK_ALL, pred |-> "null", predUser |-> 0]
                ELSE EmptyNode]

NextQ ==
    \/ \E queueOk, taskOk, low \in BOOLEAN : Begin(queueOk, taskOk, low)
    \/ \E p \in Producers : PublishToQueue_Send(p)
    \/ \E p \in Producers : PublishToQueue_Drop(p)
    \/ \E p \in Producers : PublishToQueue_Retry(p)
    \/ \E p \in Producers : PublishFromISR_Send(p)
    \/ \E p \in Producers : PublishFromISR_Drop(p)
    \/ \E p \in Producers : PublishFromISR_Retry(p)
    \/ \E p \in Producers : PubReturn(p)
    \/ \E p \in Producers : ProducerBlock(p)
    \/ Dispatch
    \/ DispatchEnd

SpecQ == InitQ /\ [][NextQ]_vars

-----------------------------------------------------------------------------
(* SpecBegin: a task that calls begin on one bus more than once and         *)
(* publishes to its queue between the calls.  The dispatcher tasks have a   *)
(* priority below that task's and are counted, not run.                     *)

NextBegin ==
    \/ \E queueOk, taskOk \in BOOLEAN : BeginAgain(queueOk, taskOk, TRUE)
    \/ \E p \in Producers : PublishToQueue_Send(p)
    \/ \E p \in Producers : PublishToQueue_Drop(p)
    \/ \E p \in Producers : PublishToQueue_Retry(p)
    \/ \E p \in Producers : ApiOf(p) = "task" /\ PubReturn(p)

SpecBegin == InitQ /\ [][NextBegin]_vars

-----------------------------------------------------------------------------
(* TinyEventBus::subscribe / unsubscribe *)

\* The slots not in use.
FreeSlots(ls) == {i \in Slots : ~ls[i].inUse}

\* A subscribe that takes the highest free slot.
SubscribeSlot_Highest(ls) ==
    IF FreeSlots(ls) = {} THEN -1
    ELSE CHOOSE i \in FreeSlots(ls) : \A j \in FreeSlots(ls) : j <= i

\* for (i = 0; i < EBUS_MAX_LISTENERS; i++) if (!ls_[i].inUse) ... return i;
\* return -1: the first free slot, or -1.
SubscribeSlot(ls) ==
    IF FreeSlots(ls) = {} THEN -1
    ELSE CHOOSE i \in FreeSlots(ls) : \A j \in FreeSlots(ls) : i <= j

\* A subscribe that evicts the listener of slot 0 when the table is full.
SubscribeOp_Evict(ls, handler, user, mask, pred) ==
    LET i == IF SubscribeSlot(ls) = -1 THEN 0 ELSE SubscribeSlot(ls)
    IN [ls |-> [ls EXCEPT ![i] =
                  [inUse |-> TRUE, h |-> handler, user |-> user,
                   mask |-> mask, pred |-> pred, predUser |-> 0]],
        h |-> i]

\* subscribe as a function of the table: the new table and the handle.
SubscribeOp(ls, handler, user, mask, pred) ==
    LET i == SubscribeSlot(ls)
    IN IF i = -1 THEN [ls |-> ls, h |-> -1]
       ELSE [ls |-> [ls EXCEPT ![i] =
                       [inUse |-> TRUE, h |-> handler, user |-> user,
                        mask |-> mask, pred |-> pred, predUser |-> 0]],
             h |-> i]

\* unsubscribe as a function of the table: handles out of range are ignored.
UnsubscribeOp(ls, h) ==
    IF h >= 0 /\ h < MaxListeners THEN [ls EXCEPT ![h] = EmptyNode] ELSE ls

\* The masks and predicates user code subscribes with, the events it
\* publishes, and the topics flows are installed for.
UserSubscriptions ==
    {[h |-> "handler", mask |-> bit(TOPIC_TIMER), pred |-> "null"],
     [h |-> "handler", mask |-> MASK_ALL, pred |-> "null"],
     [h |-> "handler", mask |-> bit(TOPIC_RETRY_RESOLVE), pred |-> "null"],
     [h |-> "handler", mask |-> bit(TOPIC_TIMER), pred |-> "gt5"],
     [h |-> "handler", mask |-> MASK_ALL, pred |-> "gt5"],
     [h |-> "null", mask |-> MASK_ALL, pred |-> "gt5"]}
PubTopics ==
    {TOPIC_WIFI_CONNECTED, TOPIC_TIMER, TOPIC_RETRY_RESOLVE,
     TOPIC_SAFE_MODE_ENTER}
PubScalars == {3, 10}
WhenTopics == {TOPIC_TIMER, TOPIC_RETRY_RESOLVE}

\* The logs of the last fan-out are dropped when the table changes.
DropLogs ==
    /\ invoked' = <<>> /\ predCalls' = <<>>
    /\ lastEvent' = DefaultEvent /\ fresh' = FALSE

\* bus.subscribe(handler, user, mask, pred) called by user code with a user
\* pointer of its own.
Subscribe(handler, mask, pred) ==
    /\ regCount < MaxSubscribes
    /\ regCount' = regCount + 1
    /\ ls_' = SubscribeOp(ls_, handler, regCount + 1, mask, pred).ls
    /\ DropLogs
    /\ UNCHANGED <<evVars, conVars, runVars, raceVars,
                   busVars, prodVars, dispVars, fgVars, released, unsubbed>>

\* bus.unsubscribe(h)
Unsubscribe(h) ==
    /\ ls_' = UnsubscribeOp(ls_, h)
    /\ unsubbed' = (unsubbed \/ (h \in Slots /\ ls_[h].inUse))
    /\ DropLogs
    /\ UNCHANGED <<evVars, conVars, runVars, raceVars,
                   busVars, prodVars, dispVars, fgVars, released, regCount>>

\* bus.publish(e) in task context: the fan-out runs in the caller.
Publish(e) ==
    /\ invoked' = FanOut(ls_, e).inv
    /\ predCalls' = FanOut(ls_, e).preds
    /\ lastEvent' = e
    /\ fresh' = TRUE
    /\ UNCHANGED <<evVars, conVars, runVars, raceVars,
                   busVars, prodVars, dispVars, regVars, fgVars, released>>

-----------------------------------------------------------------------------
(* Flow combinators.  A Flow, std::function<void(const Event&, IEventBus&)>, *)
(* is the record of the operator that built it and of what it captured.     *)

\* A publish flow that drops the scalar it was given.
publish_NoScalar(topic, i32, ptr) ==
    [op |-> "publish", topic |-> topic, i32 |-> 0, ptr |-> ptr]

\* A publish flow that drops the pointer it was given.
publish_NoPtr(topic, i32, ptr) ==
    [op |-> "publish", topic |-> topic, i32 |-> i32, ptr |-> 0]

\* static Flow publish(uint16_t topic, int32_t i32 = 0, void* ptr = nullptr)
publish(topic, i32, ptr) ==
    [op |-> "publish", topic |-> topic, i32 |-> i32, ptr |-> ptr]

\* A seq that runs b before a.
seq_Swapped(a, b) == [op |-> "seq", a |-> b, b |-> a]

\* static Flow seq(const Flow& a, const Flow& b)
seq(a, b) == [op |-> "seq", a |-> a, b |-> b]

\* static Flow tee(const Flow& a, const Flow& b) { return seq(a,b); }
tee(a, b) == seq(a, b)

\* A filter that runs thenF whatever the predicate returns.
filter_Always(pred, thenF) == thenF

\* static Flow filter(pred, thenF)
filter(pred, thenF) == [op |-> "filter", pred |-> pred, thenF |-> thenF]

\* A branch that takes onF when the predicate holds and onT when not.
branch_Swapped(pred, onT, onF) ==
    [op |-> "branch", pred |-> pred, onT |-> onF, onF |-> onT]

\* static Flow branch(pred, onT, onF)
branch(pred, onT, onF) ==
    [op |-> "branch", pred |-> pred, onT |-> onT, onF |-> onF]

\* A tap that publishes an event instead of calling fn.
tap_Publishes(fn) == [op |-> "publish", topic |-> TOPIC_MDNS_FOUND,
                      i32 |-> 0, ptr |-> 0]

\* static Flow tap(fn)
tap(fn) == [op |-> "tap", fn |-> fn]

\* A Flow whose body is empty: [](const Event&, IEventBus&) {}
noop == [op |-> "noop"]

\* Flow async_blocking(name, workerFn, onOk, onErr, stack, prio)
async_blocking(workerFn, onOk, onErr) ==
    [op |-> "async", withEvent |-> FALSE, fn |-> workerFn, onOk |-> onOk,
     onErr |-> onErr]

\* Flow async_blocking_with_event(name, workerFn, onOk, onErr, stack, prio)
async_blocking_with_event(workerFn, onOk, onErr) ==
    [op |-> "async", withEvent |-> TRUE, fn |-> workerFn, onOk |-> onOk,
     onErr |-> onErr]

\* The predicates given to filter and branch: the one of the filter test is
\* e.i32 > 100.
FlowPred(pred, e) ==
    CASE pred = "gt100" -> e.i32 > 100
      [] OTHER -> FALSE

-----------------------------------------------------------------------------
(* FlowGraph *)

\* FlowGraph(bus): asyncRouter_ = bus_.subscribe(&asyncRouterHandler, this,
\* bit(TOPIC__ASYNC_RESULT))
FlowGraphCtor ==
    /\ ~fgAlive /\ ~fgDestroyed
    /\ fgAlive' = TRUE
    /\ LET r == SubscribeOp(ls_, "asyncRouterHandler", THIS,
                            bit(TOPIC__ASYNC_RESULT), "null")
       IN /\ ls_' = r.ls
          /\ asyncRouter_' = r.h
    /\ DropLogs
    /\ UNCHANGED <<evVars, conVars, runVars, raceVars, busVars, prodVars, dispVars, released,
                   regCount, unsubbed, subs_, count_, whenTopic, fgDestroyed,
                   store, deleted>>

\* when(topic, f): stored = new Flow(f); subscribe a placeholder, unsubscribe
\* it, subscribe the flow handler with a new UserPair, record {h, stored} in
\* subs_.
When(topic, f) ==
    /\ fgAlive
    /\ Len(whenTopic) < MaxWhen
    /\ IF count_ >= MAX_SUBS
       THEN UNCHANGED <<ls_, unsubbed, subs_, count_, whenTopic, store, deleted>>
       ELSE LET r1 == SubscribeOp(ls_, "placeholder", THIS, bit(topic), "null")
                l2 == UnsubscribeOp(r1.ls, r1.h)
                r3 == SubscribeOp(l2, "flow", UserPair(count_ + 1), bit(topic),
                                  "null")
            IN /\ ls_' = r3.ls
               /\ unsubbed' = (unsubbed \/ r1.h >= 0)
               /\ subs_' = Append(subs_, [h |-> r3.h, flow |-> count_ + 1])
               /\ count_' = count_ + 1
               /\ whenTopic' = Append(whenTopic, topic)
               /\ store' = Append(store, f)
               /\ deleted' = Append(deleted, 0)
    /\ DropLogs
    /\ UNCHANGED <<evVars, conVars, runVars, raceVars, busVars, prodVars, dispVars, released,
                   regCount, fgAlive, asyncRouter_, fgDestroyed>>

\* FlowGraph(bus) of a second graph on the same bus.
FlowGraphCtor2 ==
    /\ ~fg2.alive
    /\ \E r \in {SubscribeOp(ls_, "asyncRouterHandler", THIS2,
                             bit(TOPIC__ASYNC_RESULT), "null")} :
         /\ ls_' = r.ls
         /\ fg2' = [alive |-> TRUE, asyncRouter_ |-> r.h]
    /\ DropLogs
    /\ UNCHANGED <<evVars, scan, beginLog, wh, runVars, raceVars, busVars,
                   prodVars, dispVars, released, regCount, unsubbed, fgVars>>

\* A destructor that unsubscribes the router only.
DtorTable_RouterOnly(ls, router, subs) ==
    IF router >= 0 THEN UnsubscribeOp(ls, router) ELSE ls

\* The table ~FlowGraph leaves: if (asyncRouter_ >= 0)
\* bus_.unsubscribe(asyncRouter_); for (i < count_) bus_.unsubscribe(subs_[i].h)
DtorTable(ls, router, subs) ==
    LET handles == {subs[i].h : i \in DOMAIN subs}
                     \cup (IF router >= 0 THEN {router} ELSE {})
    IN [i \in Slots |-> IF i \in handles THEN EmptyNode ELSE ls[i]]

\* ~FlowGraph(): unsubscribe the router and every subs_[i].h, delete every
\* subs_[i].flow.
FlowGraphDtor ==
    /\ fgAlive
    /\ fgAlive' = FALSE
    /\ fgDestroyed' = TRUE
    /\ ls_' = DtorTable(ls_, asyncRouter_, subs_)
    /\ unsubbed' = (unsubbed \/ ls_' # ls_)
    /\ deleted' = [k \in DOMAIN deleted |->
                     deleted[k]
                       + Cardinality({i \in DOMAIN subs_ : subs_[i].flow = k})]
    /\ DropLogs
    /\ UNCHANGED <<evVars, conVars, runVars, raceVars, busVars, prodVars, dispVars, released,
                   regCount, asyncRouter_, subs_, count_, whenTopic, store>>


-----------------------------------------------------------------------------
(* SpecReg *)

\* The bus and no FlowGraph, right after construction of the bus.
InitReg ==
    /\ InitRest
    /\ ls_ = [i \in Slots |-> EmptyNode]

NextReg ==
    \/ \E k \in UserSubscriptions : Subscribe(k.h, k.mask, k.pred)
    \/ \E h \in -1..MaxListeners : Unsubscribe(h)
    \/ \E t \in PubTopics, i \in PubScalars : Publish(MkEvent(t, i, 0, FALSE))

SpecReg == InitReg /\ [][NextReg]_vars

-----------------------------------------------------------------------------
(* SpecFlow: a FlowGraph on the bus, next to catch-all user subscribers *)

NextFlow ==
    \/ Subscribe("handler", MASK_ALL, "null")
    \/ \E h \in -1..MaxListeners : Unsubscribe(h)
    \/ \E t \in PubTopics, i \in PubScalars : Publish(MkEvent(t, i, 0, FALSE))
    \/ FlowGraphCtor
    \/ \E t \in WhenTopics : When(t, tap("fn"))

SpecFlow == InitReg /\ [][NextFlow]_vars

-----------------------------------------------------------------------------
(* SpecLife: a FlowGraph constructed, used to install flows and destroyed,  *)
(* next to user code that subscribes until the graph is destroyed and       *)
(* unsubscribes handles, the graph's among them, while the graph exists     *)

NextLife ==
    \/ ~fgDestroyed /\ Subscribe("handler", MASK_ALL, "null")
    \/ fgAlive /\ \E h \in Slots : ls_[h].inUse /\ Unsubscribe(h)
    \/ FlowGraphCtor
    \/ When(TOPIC_TIMER, tap("fn"))
    \/ FlowGraphDtor

SpecLife == InitReg /\ [][NextLife]_vars

-----------------------------------------------------------------------------
(* Flows at run time: the fan-out with the bodies of the handlers executed.  *)
(* A publish call runs to completion in the task that made it; the world w   *)
(* = [trace, tasks, freed] is threaded through the calls, and the event is   *)
(* passed along because handlers receive it by reference.                    *)

\* Number of trigger events application code publishes at most.
MaxTrig == 2

\* Number of worker tasks the heap has room for: xTaskCreate fails beyond.
MaxTasks == 2

\* The task that calls publish from application code; worker task k is k.
CALLER == 0

\* Addresses: the payload of the n-th trigger, the output the worker of task k
\* allocates, and the ResultPack of task k.
TrigPtr(n) == 10 + n
OutPtr(k) == 20 + k
PackPtr(k) == 200 + k

\* One entry of the trace.  op is
\*   "publish"  task called publish(e);            pub numbers the call
\*   "enter"    the handler of slot is called with e, in fan-out pub
\*   "exit"     that handler has returned, leaving e
\*   "return"   publish number pub returns
\*   "tap"      the function of a tap is called with e
\*   "pred"     the predicate of a filter or branch is called with e and
\*              returns inv (1 true, 0 false)
\*   "spawn"    an async flow is invoked with trigger e and creates task inv
\*   "nospawn"  an async flow is invoked with trigger e, xTaskCreate fails
\*   "worker"   the worker function of task inv is called (with e)
\*   "onOk", "onErr"  the continuation of task inv is called with e
\*   "wild"     the router is called with an event whose ptr is not a live
\*              ResultPack (null, or a pack that was deleted).  What the
\*              dereference does is not defined; the trace records the
\*              call and no effect of it
Entry(op, task, pub, slot, inv, e) ==
    [op |-> op, task |-> task, pub |-> pub, slot |-> slot, inv |-> inv,
     e |-> e]

Log(w, x) == [w EXCEPT !.trace = Append(@, x)]

PubCount(tr) == Cardinality({k \in DOMAIN tr : tr[k].op = "publish"})

\* Event(const Event& other): the fields are copied, then the ptr and the
\* cleanup of the source are cleared.
CopyCtor(other) ==
    [copy |-> other, other |-> [other EXCEPT !.ptr = 0, !.cleanup = FALSE]]

\* ~Event(), the release recorded in the log fr.
EventDtorLog(e, fr, site) ==
    IF e.auto_cleanup /\ e.cleanup /\ e.ptr # 0
    THEN Append(fr, [ptr |-> e.ptr, site |-> site])
    ELSE fr

RECURSIVE RunFlow(_, _, _, _)
RECURSIVE RunPublish(_, _, _)
RECURSIVE RunFanOut(_, _, _, _, _)
RECURSIVE RunHandler(_, _, _, _)
RECURSIVE asyncRouterHandler(_, _, _)

\* The lambda of async_blocking / async_blocking_with_event:
\*   ctx = new AsyncCtx{onOk, onErr, trigger, this}
\*   xTaskCreate(..., new TaskPack{workerFn, ctx}) or
\*   xTaskCreate(..., new TaskPackWithEvent{workerFn, ctx, trigger})
\* Both aggregates copy-construct their Event member from trigger.  The
\* result of xTaskCreate is not looked at: when it fails, no task exists and
\* ctx and the pack stay allocated.
AsyncInvoke(f, trigger, w, c) ==
    LET k == Len(w.tasks) + 1
        created == Len(w.tasks) < MaxTasks
        c1 == CopyCtor(trigger)
        c2 == IF f.withEvent THEN CopyCtor(c1.other)
              ELSE [copy |-> DefaultEvent, other |-> c1.other]
        t == [withEvent |-> f.withEvent, fn |-> f.fn, onOk |-> f.onOk,
              onErr |-> f.onErr, original |-> c1.copy,
              trigger_event |-> c2.copy, trigger |-> trigger,
              st |-> "created", ok |-> FALSE, payload |-> 0, ctxDeleted |-> 0]
    IN [e |-> c2.other,
        w |-> IF created
              THEN [Log(w, Entry("spawn", c.task, 0, -1, k, trigger))
                      EXCEPT !.tasks = Append(@, t)]
              ELSE Log(w, Entry("nospawn", c.task, 0, -1, 0, trigger))]

\* pred(e) of a filter or branch is called by task c.task.
PredCall(f, e, w, c) ==
    Log(w, Entry("pred", c.task, 0, -1,
                 IF FlowPred(f.pred, e) THEN 1 ELSE 0, e))

\* A flow called with event e by task c.task.
RunFlow(f, e, w, c) ==
    CASE f.op = "publish" ->
           \* bus.publish(Event{topic, i32, ptr}): a temporary without cleanup
           [e |-> e,
            w |-> RunPublish(MkEvent(f.topic, f.i32, f.ptr, FALSE), w, c).w]
      [] f.op = "seq" ->
           LET ra == RunFlow(f.a, e, w, c) IN RunFlow(f.b, ra.e, ra.w, c)
      [] f.op = "filter" ->
           \* if (pred(e)) thenF(e, bus)
           IF FlowPred(f.pred, e) THEN RunFlow(f.thenF, e, PredCall(f, e, w, c), c)
           ELSE [e |-> e, w |-> PredCall(f, e, w, c)]
      [] f.op = "branch" ->
           \* (pred(e) ? onT : onF)(e, bus)
           RunFlow(IF FlowPred(f.pred, e) THEN f.onT ELSE f.onF, e,
                   PredCall(f, e, w, c), c)
      [] f.op = "noop" -> [e |-> e, w |-> w]
      [] f.op = "tap" ->
           [e |-> e, w |-> Log(w, Entry("tap", c.task, 0, -1, 0, e))]
      [] f.op = "async" -> AsyncInvoke(f, e, w, c)

\* A publish that returns to its caller before the handlers run.
RunPublish_ReturnFirst(e, w, c) ==
    LET id == PubCount(w.trace) + 1
        w1 == Log(w, Entry("publish", c.task, id, -1, 0, e))
    IN RunFanOut(0, id, e, Log(w1, Entry("return", c.task, id, -1, 0, e)), c)

\* TinyEventBus::publish(e) called by task c.task.
RunPublish(e, w, c) ==
    LET id == PubCount(w.trace) + 1
        r == RunFanOut(0, id, e,
                       Log(w, Entry("publish", c.task, id, -1, 0, e)), c)
    IN [e |-> r.e, w |-> Log(r.w, Entry("return", c.task, id, -1, 0, r.e))]

\* The loop of publish from slot i on, n.h(e, n.user) executed.
RunFanOut(i, pub, e, w, c) ==
    IF i >= MaxListeners THEN [e |-> e, w |-> w]
    ELSE LET n == c.ls[i]
         IN IF ~n.inUse \/ n.h = "null" \/ ~MaskPass(n, e) \/ ~PredPass(n, e)
            THEN RunFanOut(i + 1, pub, e, w, c)
            ELSE LET r == RunHandler(n, e,
                            Log(w, Entry("enter", c.task, pub, i, 0, e)), c)
                 IN RunFanOut(i + 1, pub, r.e,
                              Log(r.w, Entry("exit", c.task, pub, i, 0, r.e)),
                              c)

\* The handlers: the lambda when installs calls (*pair->flow)(e, bus); the
\* router; the handlers of user code only look at the event.
RunHandler(n, e, w, c) ==
    CASE n.h = "flow" -> RunFlow(store[n.user - UserPair(0)], e, w, c)
      [] n.h = "asyncRouterHandler" -> asyncRouterHandler(e, w, c)
      [] OTHER -> [e |-> e, w |-> w]

\* A router that always takes the onOk continuation.
RouterPick_AlwaysOk(e) == "onOk"

\* if (e.i32 == 1) ctx->onOk(...) else ctx->onErr(...): the member of ctx
\* that is called.
RouterPick(e) == IF e.i32 = 1 THEN "onOk" ELSE "onErr"

\* A shadow built from the ASYNC_RESULT event instead of the saved trigger.
Shadow_FromResult(e, original, userPayload) ==
    [copy |-> [e EXCEPT !.ptr = userPayload], other |-> original]

\* Event shadow = ctx->original; shadow.ptr = pack->userPayload;
Shadow(e, original, userPayload) ==
    LET cp == CopyCtor(original)
    IN [copy |-> [cp.copy EXCEPT !.ptr = userPayload], other |-> cp.other]

\* FlowGraph::asyncRouterHandler(e, self): pack and ctx are found through
\* e.ptr; after the continuation, delete ctx, delete pack, and the shadow goes
\* out of scope.
asyncRouterHandler(e, w, c) ==
    LET k == e.ptr - PackPtr(0)
    IN IF k \notin DOMAIN w.tasks \/ w.tasks[k].ctxDeleted > 0
       THEN [e |-> e, w |-> Log(w, Entry("wild", c.task, 0, -1, 0, e))]
       ELSE LET ctx == w.tasks[k]
                sh == Shadow(e, ctx.original, ctx.payload)
                w1 == [Log(w, Entry(RouterPick(e), c.task, 0, -1, k, sh.copy))
                         EXCEPT !.tasks[k].original = sh.other]
                r == RunFlow(ctx[RouterPick(e)], sh.copy, w1, c)
                fr1 == EventDtorLog(r.w.tasks[k].original, r.w.freed, "ctx")
            IN [e |-> e,
                w |-> [r.w EXCEPT !.tasks[k].ctxDeleted = @ + 1,
                                  !.freed = EventDtorLog(r.e, fr1, "router")]]

World == [trace |-> trace, tasks |-> tasks, freed |-> freed]

\* Application code: { Event e{...}; bus.publish(e); } in task context.
PublishTrigger(e) ==
    /\ trigCount < MaxTrig
    /\ trigCount' = trigCount + 1
    /\ \E r \in {RunPublish(e, World, [task |-> CALLER, ls |-> ls_])} :
          /\ trace' = r.w.trace
          /\ tasks' = r.w.tasks
          /\ freed' = EventDtorLog(r.e, r.w.freed, "publisher")
    /\ UNCHANGED <<evVars, conVars, raceVars, busVars, prodVars, dispVars, regVars, pubVars,
                   fgVars, released>>

\* The wiring is made before the first event is published.
Wiring == trigCount = 0

-----------------------------------------------------------------------------
(* SpecComb: flows built from the synchronous combinators *)

\* The listeners of the flow tests (all events; MDNS_FOUND | MQTT_CONNECTED),
\* the flows they install, and the events they publish.
CombSubscriptions ==
    {[h |-> "handler", mask |-> MASK_ALL, pred |-> "null"],
     [h |-> "handler",
      mask |-> bit(TOPIC_MDNS_FOUND) \cup bit(TOPIC_MQTT_CONNECTED),
      pred |-> "null"]}

CombWiring ==
    {[topic |-> TOPIC_WIFI_CONNECTED,
      flow |-> seq(publish(TOPIC_MDNS_FOUND, 1, 0),
                   publish(TOPIC_MQTT_CONNECTED, 2, 0))],
     [topic |-> TOPIC_MDNS_FOUND,
      flow |-> publish(TOPIC_MQTT_CONNECTED, 3, 0)],
     [topic |-> TOPIC_WIFI_CONNECTED,
      flow |-> filter("gt100", publish(TOPIC_MDNS_FOUND, 42, 0))],
     [topic |-> TOPIC_WIFI_CONNECTED,
      flow |-> branch("gt100", tap("fn"), publish(TOPIC_MDNS_FAILED, 0, 0))]}

CombTriggers ==
    {MkEvent(TOPIC_WIFI_CONNECTED, 0, 0, FALSE),
     MkEvent(TOPIC_WIFI_CONNECTED, 999, 0, FALSE)}

\* The order of the flow tests: FlowGraph G(bus); G.when(...) ...;
\* bus.subscribe(...) ...; bus.publish(...) ...
NextComb ==
    \/ Wiring /\ FlowGraphCtor
    \/ Wiring /\ regCount = 0 /\ \E x \in CombWiring : When(x.topic, x.flow)
    \/ Wiring /\ fgAlive
          /\ \E k \in CombSubscriptions : Subscribe(k.h, k.mask, k.pred)
    \/ \E e \in CombTriggers : PublishTrigger(e)

SpecComb == InitReg /\ [][NextComb]_vars

-----------------------------------------------------------------------------
(* SpecOps: one flow per operator, as the operator tests install them, a    *)
(* flow on MDNS_FOUND that makes the fan-out of a published event publish   *)
(* again, and a catch-all subscriber.                                       *)

\* The address of a static object given to publish as ptr.
OpsPtr == 7

BranchFlow ==
    branch("gt100", publish(TOPIC_MDNS_FOUND, 1, 0),
           publish(TOPIC_MDNS_FAILED, 0, 0))
SeqFlow == seq(publish(TOPIC_MDNS_FOUND, 1, 0), tap("fn"))
TeeFlow == tee(tap("fn"), publish(TOPIC_MQTT_CONNECTED, 2, 0))
TapFlow == tap("fn")
FilterFlow == filter("gt100", publish(TOPIC_MDNS_FOUND, 42, 0))
PublishFlow == publish(TOPIC_MDNS_FOUND, 42, OpsPtr)
NestedFlow == publish(TOPIC_MQTT_CONNECTED, 3, 0)

OpsWiring ==
    {[topic |-> TOPIC_WIFI_CONNECTED, flow |-> BranchFlow],
     [topic |-> TOPIC_WIFI_CONNECTED, flow |-> SeqFlow],
     [topic |-> TOPIC_WIFI_CONNECTED, flow |-> TeeFlow],
     [topic |-> TOPIC_WIFI_CONNECTED, flow |-> TapFlow],
     [topic |-> TOPIC_WIFI_CONNECTED, flow |-> FilterFlow],
     [topic |-> TOPIC_WIFI_CONNECTED, flow |-> PublishFlow],
     [topic |-> TOPIC_MDNS_FOUND, flow |-> NestedFlow]}

\* The triggers of the tests (i32 50, 200) and one that owns a payload.
OpsTriggers ==
    {MkEvent(TOPIC_WIFI_CONNECTED, 50, 0, FALSE),
     MkEvent(TOPIC_WIFI_CONNECTED, 200, 0, FALSE),
     MkEvent(TOPIC_WIFI_CONNECTED, 999, TrigPtr(1), TRUE)}

NextOps ==
    \/ Wiring /\ FlowGraphCtor
    \/ Wiring /\ regCount = 0 /\ \E x \in OpsWiring : When(x.topic, x.flow)
    \/ Wiring /\ fgAlive /\ regCount = 0
          /\ Subscribe("handler", MASK_ALL, "null")
    \/ \E e \in OpsTriggers : PublishTrigger(e)

SpecOps == InitReg /\ [][NextOps]_vars

-----------------------------------------------------------------------------
(* SpecAsync: flows built from async_blocking and async_blocking_with_event *)

\* A result event that reports success whatever the worker returned.
ResultEvent_AlwaysOk(k, ok) ==
    MkEvent(TOPIC__ASYNC_RESULT, 1, PackPtr(k), FALSE)

\* Event r{TOPIC__ASYNC_RESULT, ok ? 1 : 0, new ResultPack{payload, p->ctx}}
\* of the worker task of invocation k.
ResultEvent(k, ok) ==
    MkEvent(TOPIC__ASYNC_RESULT, IF ok THEN 1 ELSE 0, PackPtr(k), FALSE)

\* The body of the task an async flow creates, for invocation k:
\*   bool ok = p->fn(&payload)   (p->fn(p->trigger_event, &payload));
\*   Event r{TOPIC__ASYNC_RESULT, ok ? 1 : 0, new ResultPack{payload, p->ctx}};
\*   async_ctx->fg->bus_.publish(r); delete p; vTaskDelete(nullptr);
\* ok and out are what the worker function returns and writes to *out
\* (mdns_query_worker and mqtt_connection_worker_with_event write the address
\* of a string or record they allocate).
WorkerTask(k, ok, out) ==
    /\ k \in DOMAIN tasks
    /\ tasks[k].st = "created"
    /\ LET w1 == [Log(World, Entry("worker", k, 0, -1, k,
                                   tasks[k].trigger_event))
                    EXCEPT !.tasks[k].ok = ok, !.tasks[k].payload = out]
           r == ResultEvent(k, ok)
       IN \E res \in {RunPublish(r, w1, [task |-> k, ls |-> ls_])} :
          /\ trace' = res.w.trace
          /\ tasks' = [res.w.tasks EXCEPT ![k].st = "exited"]
          /\ freed' = EventDtorLog(res.w.tasks[k].trigger_event, res.w.freed,
                                   "pack")
    /\ UNCHANGED <<evVars, conVars, raceVars, busVars, prodVars, dispVars, regVars, pubVars,
                   fgVars, released, trigCount>>

\* The flows app_main installs on WIFI_CONNECTED and on MDNS_FOUND, with the
\* continuations of scenario S1.
MdnsFlow ==
    async_blocking("mdns_query_worker",
                   publish(TOPIC_MDNS_FOUND, 0, 0),
                   publish(TOPIC_MDNS_FAILED, 0, 0))
MqttFlow ==
    async_blocking_with_event("mqtt_connection_worker_with_event",
        publish(TOPIC_MQTT_CONNECTED, 1, 0),
        seq(publish(TOPIC_MQTT_DISCONNECTED, 0, 0),
            publish(TOPIC_SYSTEM_ERROR, 6, 0)))
AsyncWiring ==
    {[topic |-> TOPIC_WIFI_CONNECTED, flow |-> MdnsFlow],
     [topic |-> TOPIC_MDNS_FOUND, flow |-> MqttFlow]}

\* The n-th event application code publishes: Event{TOPIC_WIFI_CONNECTED, n,
\* nullptr} or Event{TOPIC_MDNS_FOUND, 0, strdup(host), free}.
AsyncTriggers(n) ==
    {MkEvent(TOPIC_WIFI_CONNECTED, n, 0, FALSE),
     MkEvent(TOPIC_MDNS_FOUND, 0, TrigPtr(n), TRUE)}

\* One subscriber with the ALL mask, registered at any point of the wiring.
NextAsync ==
    \/ Wiring /\ regCount = 0 /\ Subscribe("handler", MASK_ALL, "null")
    \/ Wiring /\ FlowGraphCtor
    \/ Wiring /\ \E x \in AsyncWiring : When(x.topic, x.flow)
    \/ \E e \in AsyncTriggers(trigCount) : PublishTrigger(e)
    \/ \E k \in DOMAIN tasks, ok \in BOOLEAN : WorkerTask(k, ok, OutPtr(k))

SpecAsync == InitReg /\ [][NextAsync]_vars

-----------------------------------------------------------------------------
(* SpecRace: one task runs publish while another task calls subscribe and   *)
(* unsubscribe.  Nothing guards ls_, so the loop of publish is a sequence   *)
(* of reads of the slot, and the calls of the other task fall between them. *)

\* The registrations the other task makes and the event that is published.
RaceSubscriptions ==
    {[h |-> "handler", mask |-> MASK_ALL, pred |-> "null"],
     [h |-> "handler", mask |-> bit(TOPIC_TIMER), pred |-> "gt5"],
     [h |-> "handler", mask |-> bit(TOPIC_WIFI_CONNECTED), pred |-> "null"]}
RaceEvent == MkEvent(TOPIC_TIMER, 10, 0, FALSE)

\* i++ of the loop: the next slot, or the end of publish.
NextSlot(r) ==
    IF r.i + 1 < MaxListeners
    THEN [IdleReader EXCEPT !.pc = "check", !.i = r.i + 1]
    ELSE IdleReader

\* bus.subscribe(handler, user, mask, pred) by the other task
WriterSubscribe(handler, mask, pred) ==
    /\ regCount < MaxSubscribes
    /\ regCount' = regCount + 1
    /\ \E r \in {SubscribeOp(ls_, handler, regCount + 1, mask, pred)} :
         /\ ls_' = r.ls
         /\ history' = Append(history,
                              [slot |-> r.h, h |-> handler,
                               user |-> regCount + 1, mask |-> mask,
                               pred |-> pred])
         /\ gone' = gone \ {r.h}
    /\ UNCHANGED <<evVars, conVars, runVars, reader, used, busVars, prodVars, dispVars,
                   pubVars, fgVars, released, unsubbed>>

\* bus.unsubscribe(h) by the other task
WriterUnsubscribe(h) ==
    /\ ls_[h].inUse
    /\ ls_' = UnsubscribeOp(ls_, h)
    /\ unsubbed' = TRUE
    /\ gone' = gone \cup {h}
    /\ UNCHANGED <<evVars, conVars, runVars, reader, used, history, busVars, prodVars,
                   dispVars, pubVars, fgVars, released, regCount>>

\* publish(e) is entered: i = 0
ReaderStart ==
    /\ reader.pc = "idle"
    /\ trigCount < MaxTrig
    /\ trigCount' = trigCount + 1
    /\ reader' = [IdleReader EXCEPT !.pc = "check"]
    /\ used' = <<>>
    /\ UNCHANGED <<evVars, conVars, trace, tasks, freed, history, gone, busVars, prodVars,
                   dispVars, regVars, pubVars, fgVars, released>>

\* if (!n.inUse || !n.h) continue;
ReaderCheck ==
    /\ reader.pc = "check"
    /\ LET n == ls_[reader.i]
       IN reader' = IF ~n.inUse \/ n.h = "null" THEN NextSlot(reader)
                    ELSE [reader EXCEPT !.pc = "mask", !.h = n.h]
    /\ UNCHANGED <<evVars, conVars, runVars, used, history, gone, busVars, prodVars, dispVars,
                   regVars, pubVars, fgVars, released>>

\* if (b && !(n.mask & b)) continue;
ReaderMask ==
    /\ reader.pc = "mask"
    /\ LET n == ls_[reader.i]
       IN reader' = IF ~MaskPass(n, RaceEvent) THEN NextSlot(reader)
                    ELSE [reader EXCEPT !.pc = "pred", !.mask = n.mask]
    /\ UNCHANGED <<evVars, conVars, runVars, used, history, gone, busVars, prodVars, dispVars,
                   regVars, pubVars, fgVars, released>>

\* if (n.pred && !n.pred(e, n.predUser)) continue;
ReaderPred ==
    /\ reader.pc = "pred"
    /\ LET n == ls_[reader.i]
       IN reader' = IF ~PredPass(n, RaceEvent) THEN NextSlot(reader)
                    ELSE [reader EXCEPT !.pc = "call", !.pred = n.pred]
    /\ UNCHANGED <<evVars, conVars, runVars, used, history, gone, busVars, prodVars, dispVars,
                   regVars, pubVars, fgVars, released>>

\* n.h(e, n.user): n is a reference to the slot, so the build either loads
\* n.h again or calls the value it tested; n.user is loaded here.  A call of
\* the reloaded nullptr is logged with h = "null".
ReaderCall ==
    /\ reader.pc = "call"
    /\ \E h \in {reader.h, ls_[reader.i].h} :
         used' = Append(used,
                        [slot |-> reader.i, h |-> h,
                         user |-> ls_[reader.i].user, mask |-> reader.mask,
                         pred |-> reader.pred, late |-> reader.i \in gone])
    /\ reader' = NextSlot(reader)
    /\ UNCHANGED <<evVars, conVars, runVars, history, gone, busVars, prodVars, dispVars,
                   regVars, pubVars, fgVars, released>>

NextRace ==
    \/ \E k \in RaceSubscriptions : WriterSubscribe(k.h, k.mask, k.pred)
    \/ \E h \in Slots : WriterUnsubscribe(h)
    \/ ReaderStart
    \/ ReaderCheck
    \/ ReaderMask
    \/ ReaderPred
    \/ ReaderCall

SpecRace == InitReg /\ [][NextRace]_vars

-----------------------------------------------------------------------------
(* SpecSub2: two tasks call subscribe at the same time, after user code has *)
(* subscribed and unsubscribed some listeners.  Nothing guards ls_, so the  *)
(* loop of subscribe is a sequence of reads of inUse and one write of the   *)
(* slot, and the steps of the other task fall between them.  The write of   *)
(* the slot is taken as one step: a write torn between the two tasks adds   *)
(* outcomes to the ones below and removes none.                             *)

\* The user pointer task t subscribes with.
ScanUser(t) == 300 + t

\* No task has entered subscribe yet.
ScanSetup == \A t \in Scanners : scan[t] = IdleScan

\* Task t enters subscribe(handler, user): i = 0
ScanStart(t) ==
    /\ scan[t] = IdleScan
    /\ scan' = [scan EXCEPT ![t] = [IdleScan EXCEPT !.pc = "check"]]
    /\ UNCHANGED <<evVars, fg2, beginLog, wh, runVars, raceVars, busVars,
                   prodVars, dispVars, regVars, pubVars, fgVars, released>>

\* i < EBUS_MAX_LISTENERS and if (!ls_[i].inUse); else i++; return -1 after
\* the last slot.
ScanCheck(t) ==
    /\ scan[t].pc = "check"
    /\ scan' = [scan EXCEPT ![t] =
                  IF scan[t].i >= MaxListeners
                  THEN [scan[t] EXCEPT !.pc = "done", !.ret = -1]
                  ELSE IF ~ls_[scan[t].i].inUse
                  THEN [scan[t] EXCEPT !.pc = "write"]
                  ELSE [scan[t] EXCEPT !.i = @ + 1]]
    /\ UNCHANGED <<evVars, fg2, beginLog, wh, runVars, raceVars, busVars,
                   prodVars, dispVars, regVars, pubVars, fgVars, released>>

\* ls_[i] = {true, handler, user, mask, pred, predUser}; return i;
ScanWrite(t) ==
    /\ scan[t].pc = "write"
    /\ ls_' = [ls_ EXCEPT ![scan[t].i] =
                 [inUse |-> TRUE, h |-> "handler", user |-> ScanUser(t),
                  mask |-> MASK_ALL, pred |-> "null", predUser |-> 0]]
    /\ scan' = [scan EXCEPT ![t] =
                  [scan[t] EXCEPT !.pc = "done", !.ret = scan[t].i]]
    /\ UNCHANGED <<evVars, fg2, beginLog, wh, runVars, raceVars, busVars,
                   prodVars, dispVars, regCount, unsubbed, pubVars, fgVars,
                   released>>

NextSub2 ==
    \/ ScanSetup /\ Subscribe("handler", MASK_ALL, "null")
    \/ ScanSetup /\ \E h \in Slots : ls_[h].inUse /\ Unsubscribe(h)
    \/ \E t \in Scanners : ScanStart(t)
    \/ \E t \in Scanners : ScanCheck(t)
    \/ \E t \in Scanners : ScanWrite(t)

SpecSub2 == InitReg /\ [][NextSub2]_vars

-----------------------------------------------------------------------------
(* SpecWhen2: one task calls when while two other tasks call subscribe.     *)
(* when is the sequence of its bus calls, and each subscribe inside it is,  *)
(* as in SpecSub2, a sequence of reads of inUse and one write of the slot.  *)

\* The slots holding a listener that was not registered by the two
\* subscribing tasks.
OwnListeners ==
    {i \in Slots : ls_[i].inUse
                     /\ ls_[i].user \notin {ScanUser(t) : t \in Scanners}}

\* Nothing runs yet: user code and the main task set the bus up.
WhenSetup == wh = IdleWhen /\ ScanSetup

\* The position after a subscribe inside when has returned: the unsubscribe
\* after the placeholder, the store into subs_ after the flow handler.
AfterCall(w) == IF w.call = 1 THEN "unsub" ELSE "record"

\* when(topic, f) is entered: if (count_ >= MAX_SUBS) return -1;
\* stored = new Flow(f); and the first subscribe starts with i = 0.
WhenEnter(topic, f) ==
    /\ fgAlive
    /\ wh = IdleWhen
    /\ IF count_ >= MAX_SUBS
       THEN /\ wh' = [IdleWhen EXCEPT !.pc = "done", !.h = -1]
            /\ UNCHANGED <<store, deleted>>
       ELSE /\ wh' = [pc |-> "check", call |-> 1, i |-> 0, h |-> -2,
                      topic |-> topic, before |-> Cardinality(OwnListeners)]
            /\ store' = Append(store, f)
            /\ deleted' = Append(deleted, 0)
    /\ UNCHANGED <<evVars, fg2, scan, beginLog, runVars, raceVars, busVars,
                   prodVars, dispVars, regVars, pubVars, released, fgAlive,
                   asyncRouter_, subs_, count_, whenTopic, fgDestroyed>>

\* The loop of the subscribe when is in: i < EBUS_MAX_LISTENERS and
\* if (!ls_[i].inUse); else i++; return -1 after the last slot.
WhenCheck ==
    /\ wh.pc = "check"
    /\ wh' = IF wh.i >= MaxListeners
             THEN [wh EXCEPT !.pc = AfterCall(wh), !.h = -1]
             ELSE IF ~ls_[wh.i].inUse
             THEN [wh EXCEPT !.pc = "write"]
             ELSE [wh EXCEPT !.i = @ + 1]
    /\ UNCHANGED <<evVars, fg2, scan, beginLog, runVars, raceVars, busVars,
                   prodVars, dispVars, regVars, pubVars, released, fgVars>>

\* ls_[i] = {true, handler, user, bit(topic), ..}; return i; with the
\* placeholder and this in the first call, the flow handler and a new
\* UserPair in the second.
WhenWrite ==
    /\ wh.pc = "write"
    /\ ls_' = [ls_ EXCEPT ![wh.i] =
                 [inUse |-> TRUE,
                  h |-> IF wh.call = 1 THEN "placeholder" ELSE "flow",
                  user |-> IF wh.call = 1 THEN THIS ELSE UserPair(count_ + 1),
                  mask |-> bit(wh.topic), pred |-> "null", predUser |-> 0]]
    /\ wh' = [wh EXCEPT !.pc = AfterCall(wh), !.h = wh.i]
    /\ UNCHANGED <<evVars, fg2, scan, beginLog, runVars, raceVars, busVars,
                   prodVars, dispVars, regCount, unsubbed, pubVars, released,
                   fgVars>>

\* bus_.unsubscribe(h); and the second subscribe starts with i = 0.
WhenUnsub ==
    /\ wh.pc = "unsub"
    /\ ls_' = UnsubscribeOp(ls_, wh.h)
    /\ unsubbed' = (unsubbed \/ wh.h >= 0)
    /\ wh' = [wh EXCEPT !.pc = "check", !.call = 2, !.i = 0]
    /\ UNCHANGED <<evVars, fg2, scan, beginLog, runVars, raceVars, busVars,
                   prodVars, dispVars, regCount, pubVars, released, fgVars>>

\* subs_[count_++] = {h, stored}; return h;
WhenRecord ==
    /\ wh.pc = "record"
    /\ subs_' = Append(subs_, [h |-> wh.h, flow |-> count_ + 1])
    /\ count_' = count_ + 1
    /\ whenTopic' = Append(whenTopic, wh.topic)
    /\ wh' = [wh EXCEPT !.pc = "done"]
    /\ UNCHANGED <<evVars, fg2, scan, beginLog, runVars, raceVars, busVars,
                   prodVars, dispVars, regVars, pubVars, released, fgAlive,
                   asyncRouter_, fgDestroyed, store, deleted>>

NextWhen2 ==
    \/ WhenSetup /\ FlowGraphCtor
    \/ WhenSetup /\ Subscribe("handler", MASK_ALL, "null")
    \/ WhenSetup /\ \E h \in Slots : ls_[h].h = "handler" /\ Unsubscribe(h)
    \/ WhenEnter(TOPIC_TIMER, tap("fn"))
    \/ WhenCheck
    \/ WhenWrite
    \/ WhenUnsub
    \/ WhenRecord
    \/ \E t \in Scanners : ScanStart(t)
    \/ \E t \in Scanners : ScanCheck(t)
    \/ \E t \in Scanners : ScanWrite(t)

SpecWhen2 == InitReg /\ [][NextWhen2]_vars

-----------------------------------------------------------------------------
(* SpecGraphs: up to two FlowGraphs on one bus, an async flow installed by   *)
(* the first, and application code publishing events of topics below and    *)
(* above 32                                                                 *)

GraphsTriggers(n) ==
    {MkEvent(TOPIC_WIFI_CONNECTED, n, 0, FALSE),
     MkEvent(TOPIC_RETRY_RESOLVE, 0, 0, FALSE)}

NextGraphs ==
    \/ Wiring /\ FlowGraphCtor
    \/ Wiring /\ FlowGraphCtor2
    \/ Wiring /\ When(TOPIC_WIFI_CONNECTED, MdnsFlow)
    \/ \E e \in GraphsTriggers(trigCount) : PublishTrigger(e)
    \/ \E k \in DOMAIN tasks, ok \in BOOLEAN : WorkerTask(k, ok, OutPtr(k))

SpecGraphs == InitReg /\ [][NextGraphs]_vars

-----------------------------------------------------------------------------
(* SpecAsyncFair: an async flow on a bus whose table user code has filled   *)
(* before the FlowGraph is constructed, and of which it frees the first two *)
(* slots at some time; a worker task that was created runs and returns.     *)

\* The bus after one subscribe(handler, nullptr, MASK_ALL) per slot.
InitFull ==
    /\ InitRest
    /\ ls_ = [i \in Slots |->
                [inUse |-> TRUE, h |-> "handler", user |-> i + 1,
                 mask |-> MASK_ALL, pred |-> "null", predUser |-> 0]]

NextAsyncFair ==
    \/ Wiring /\ \E h \in {0, 1} : ls_[h].h = "handler" /\ Unsubscribe(h)
    \/ Wiring /\ FlowGraphCtor
    \/ Wiring /\ When(TOPIC_WIFI_CONNECTED, MdnsFlow)
    \/ PublishTrigger(MkEvent(TOPIC_WIFI_CONNECTED, trigCount, 0, FALSE))
    \/ \E k \in DOMAIN tasks, ok \in BOOLEAN : WorkerTask(k, ok, OutPtr(k))

\* Worker task k was created by xTaskCreate and has not run yet.
WorkerPending(k) == k \in DOMAIN tasks /\ tasks[k].st = "created"

\* app_main runs the FlowGraph constructor, and the scheduler runs every
\* task that was created.  WorkerTask(k, ..) is enabled exactly when
\* WorkerPending(k) and ends it, so weak fairness of the worker step is
\* the second conjunct.
Fairness ==
    /\ WF_vars(Wiring /\ FlowGraphCtor)
    /\ \A k \in 1..MaxTasks : []<>~WorkerPending(k)

SpecAsyncFair == InitFull /\ [][NextAsyncFair]_vars /\ Fairness

-----------------------------------------------------------------------------
(* SpecEvent: Event objects of user code, constructed from arguments or as  *)
(* copies, assigned to each other, switched between automatic and manual    *)
(* cleanup, and destroyed.                                                  *)

\* Number of Event objects constructed from arguments.
MaxMade == 2

\* The objects of the caller: two variables of type Event.
EvIds == {1, 2}

\* The payload allocated for the n-th constructed Event.
EvPtr(n) == 30 + n

\* An assignment that does not release what the destination holds.
AssignOp_NoRelease(this, other) ==
    [this |-> other, other |-> [other EXCEPT !.ptr = 0, !.cleanup = FALSE],
     ran |-> <<>>]

\* operator=(other) for this != &other: release the payload held when
\* auto_cleanup && cleanup && ptr, take every field of other, clear ptr and
\* cleanup of other.
AssignOp(this, other) ==
    [this |-> other, other |-> [other EXCEPT !.ptr = 0, !.cleanup = FALSE],
     ran |-> IF this.auto_cleanup /\ this.cleanup /\ this.ptr # 0
             THEN <<this.ptr>> ELSE <<>>]

\* A manual_cleanup that keeps the pointer.
ManualOp_KeepPtr(e) ==
    IF e.cleanup /\ e.ptr # 0 THEN [e |-> e, ran |-> <<e.ptr>>]
    ELSE [e |-> e, ran |-> <<>>]

\* manual_cleanup(): if (cleanup && ptr) { cleanup(ptr); ptr = nullptr; }
ManualOp(e) ==
    IF e.cleanup /\ e.ptr # 0
    THEN [e |-> [e EXCEPT !.ptr = 0], ran |-> <<e.ptr>>]
    ELSE [e |-> e, ran |-> <<>>]

\* The releases an operation ran, appended to the log.
Ran(ps, site) == [k \in DOMAIN ps |-> [ptr |-> ps[k], site |-> site]]

\* evs with object x set to e, and with object x removed.
Put(x, e) == [y \in DOMAIN evs \cup {x} |-> IF y = x THEN e ELSE evs[y]]
Drop(x) == [y \in DOMAIN evs \ {x} |-> evs[y]]

\* The record of an operation on object x (and y): what it found and ran.
Op(op, x, y, ran, xb, yb) ==
    [op |-> op, x |-> x, y |-> y, ran |-> ran, xBefore |-> xb, yBefore |-> yb,
     was |-> x \in cleaned]

\* Event x{TOPIC_TIMER, n, p, c, auto_clean}: p is nullptr or a payload
\* allocated for this event.
EvConstruct(x, withPtr, c, auto) ==
    /\ x \notin DOMAIN evs
    /\ made < MaxMade
    /\ made' = made + 1
    /\ evs' = Put(x, [MkEvent(TOPIC_TIMER, made + 1,
                              IF withPtr THEN EvPtr(made + 1) ELSE 0, c)
                        EXCEPT !.auto_cleanup = auto])
    /\ lastOp' = Op("construct", x, 0, <<>>, DefaultEvent, DefaultEvent)
    /\ cleaned' = cleaned \ {x}
    /\ UNCHANGED <<conVars, runVars, raceVars, busVars, prodVars, dispVars,
                   regVars, pubVars, fgVars, released>>

\* Event x = y;
EvCopy(x, y) ==
    /\ x \notin DOMAIN evs
    /\ y \in DOMAIN evs
    /\ \E r \in {CopyCtor(evs[y])} :
         evs' = [z \in DOMAIN evs \cup {x} |->
                   IF z = x THEN r.copy ELSE IF z = y THEN r.other ELSE evs[z]]
    /\ lastOp' = Op("copy", x, y, <<>>, DefaultEvent, evs[y])
    /\ cleaned' = cleaned \ {x}
    /\ UNCHANGED <<made, conVars, runVars, raceVars, busVars, prodVars,
                   dispVars, regVars, pubVars, fgVars, released>>

\* x = y; for two objects, and x = x; which does nothing
EvAssign(x, y) ==
    /\ x \in DOMAIN evs
    /\ y \in DOMAIN evs
    /\ IF x = y
       THEN /\ lastOp' = Op("assignSelf", x, y, <<>>, evs[x], evs[y])
            /\ UNCHANGED <<evs, freed, cleaned>>
       ELSE \E r \in {AssignOp(evs[x], evs[y])} :
              /\ evs' = [evs EXCEPT ![x] = r.this, ![y] = r.other]
              /\ freed' = freed \o Ran(r.ran, "assign")
              /\ lastOp' = Op("assign", x, y, r.ran, evs[x], evs[y])
              /\ cleaned' = cleaned \ {x}
    /\ UNCHANGED <<made, conVars, trace, tasks, trigCount, raceVars, busVars,
                   prodVars, dispVars, regVars, pubVars, fgVars, released>>

\* x.disable_auto_cleanup() and x.enable_auto_cleanup()
EvSetAuto(x, auto) ==
    /\ x \in DOMAIN evs
    /\ evs[x].auto_cleanup # auto
    /\ evs' = [evs EXCEPT ![x].auto_cleanup = auto]
    /\ lastOp' = Op(IF auto THEN "enable" ELSE "disable", x, 0, <<>>, evs[x],
                    DefaultEvent)
    /\ UNCHANGED <<made, cleaned, conVars, runVars, raceVars, busVars,
                   prodVars, dispVars, regVars, pubVars, fgVars, released>>

\* x.manual_cleanup()
EvManual(x) ==
    /\ x \in DOMAIN evs
    /\ \E r \in {ManualOp(evs[x])} :
         /\ evs' = [evs EXCEPT ![x] = r.e]
         /\ freed' = freed \o Ran(r.ran, "manual")
         /\ lastOp' = Op("manual", x, 0, r.ran, evs[x], DefaultEvent)
    /\ cleaned' = cleaned \cup {x}
    /\ UNCHANGED <<made, conVars, trace, tasks, trigCount, raceVars, busVars,
                   prodVars, dispVars, regVars, pubVars, fgVars, released>>

\* x goes out of scope: ~Event()
EvDestroy(x) ==
    /\ x \in DOMAIN evs
    /\ evs' = Drop(x)
    /\ freed' = EventDtorLog(evs[x], freed, "dtor")
    /\ lastOp' = Op("destroy", x, 0,
                    IF freed' = freed THEN <<>> ELSE <<evs[x].ptr>>, evs[x],
                    DefaultEvent)
    /\ UNCHANGED <<made, cleaned, conVars, trace, tasks, trigCount, raceVars,
                   busVars, prodVars, dispVars, regVars, pubVars, fgVars,
                   released>>

NextEvent ==
    \/ \E x \in EvIds, withPtr, c, auto \in BOOLEAN :
         EvConstruct(x, withPtr, c, auto)
    \/ \E x, y \in EvIds : EvCopy(x, y)
    \/ \E x, y \in EvIds : EvAssign(x, y)
    \/ \E x \in EvIds, auto \in BOOLEAN : EvSetAuto(x, auto)
    \/ \E x \in EvIds : EvManual(x)
    \/ \E x \in EvIds : EvDestroy(x)

SpecEvent == InitReg /\ [][NextEvent]_vars

-----------------------------------------------------------------------------
(* Properties of the dispatch queue, checked under SpecQ *)

Min(a, b) == IF a < b THEN a ELSE b
Max(a, b) == IF a > b THEN a ELSE b

\* The inline scalars of the events of a queue, front first.
Scalars(q) == [i \in 1..Len(q) |-> q[i].i32]

\* No producer is inside a publish call.
Quiescent(p) == pc[p] \in {"ready", "done"}

\* C1: every event with a payload and a release that was enqueued by
\* publishToQueue, dequeued and fanned out by the dispatcher has had its
\* release run exactly once in total, once the publisher's own Event and the
\* dispatcher's local Event are both destroyed.
C1_ReleaseOncePerDeliveredEvent ==
    \A s \in 0..(MaxPub - 1) :
        (released[PtrOf(1, s)].dispatcher >= 1 /\ calls[1] > s)
            => Releases(released[PtrOf(1, s)]) = 1

\* C2: with the dispatcher not draining (it has the lower priority and the
\* producer has not blocked yet), after n calls of one producer carrying the
\* scalars 0..n-1 the queue holds exactly the newest Min(n, QueueLen) of them
\* in enqueue order, and the dispatcher then delivers exactly these, in that
\* order.
C2_DropOldestKeepsNewest ==
    \A p \in Producers :
        LET o == 3 - p
            n == calls[p]
            k == Max(0, n - QueueLen)
        IN (q_ = "created" /\ prioLow /\ ~earlyCall /\ Quiescent(p)
              /\ calls[o] = 0 /\ Quiescent(o))
           => /\ delivered \o Scalars(queue)
                   = [i \in 1..(n - k) |-> ScalarOf(p, k + i - 1)]
              /\ (pc[p] # "done" => delivered = <<>>)

C2_Witness ==
    /\ q_ = "created" /\ prioLow /\ ~earlyCall
    /\ calls[1] > QueueLen /\ calls[2] = 0
    /\ pc[1] = "done" /\ pc[2] = "done"
    /\ queue = <<>> /\ Len(delivered) = QueueLen /\ dpc = "recv"

\* C3: the release of an event that left the queue through the drop-oldest
\* path has run exactly once, in the drop path, and nowhere else.
C3_DropIsTheOnlyRelease ==
    \A x \in Ptrs :
        released[x].drop >= 1
            => released[x] = [publisher |-> 0, drop |-> 1, dispatcher |-> 0]

\* C4: on a bus whose begin succeeded, a publish call that has returned has
\* placed its own event in the queue, whatever the interleaving with the other
\* producer and the dispatcher.
C4_OwnEventAlwaysPlaced ==
    \A p \in Producers :
        (beginOk /\ pc[p] = "end" /\ result[p] # "noq") => sent[p]

\* C5: two events enqueued in order by the same producer are fanned out by the
\* dispatcher in that order (in particular when no overflow happened).
C5_FifoPerProducer ==
    \A i, j \in 1..Len(delivered) :
        (i < j /\ (delivered[i] \div 100) = (delivered[j] \div 100))
            => delivered[i] < delivered[j]

C5_Witness ==
    /\ Len(delivered) >= 2
    /\ delivered[2] = delivered[1] + 1
    /\ \A x \in Ptrs : released[x].drop = 0

-----------------------------------------------------------------------------
(* Properties of the fan-out, checked under SpecReg and SpecFlow *)

\* Number of handler invocations of slot i, and of evaluations of its
\* predicate, in the last fan-out.
InvCount(i) == Cardinality({k \in DOMAIN invoked : invoked[k].slot = i})
PredCount(i) == Cardinality({k \in DOMAIN predCalls : predCalls[k] = i})

\* The listeners with a handler.
Live(i) == ls_[i].inUse /\ ls_[i].h # "null"

\* C6: for a listener in use with a handler, mask M and no predicate and a
\* published event with topic t < 32, the handler is invoked (once) iff bit t
\* of M is set.
C6_MaskFiltering ==
    fresh =>
        \A i \in Slots :
            (Live(i) /\ ls_[i].pred = "null" /\ lastEvent.type < 32)
                => /\ InvCount(i) <= 1
                   /\ InvCount(i) = 1 <=> lastEvent.type \in ls_[i].mask

C6_Witness ==
    /\ fresh /\ lastEvent.type < 32
    /\ \E i, j \in Slots :
          /\ Live(i) /\ ls_[i].pred = "null" /\ Live(j) /\ ls_[j].pred = "null"
          /\ lastEvent.type \in ls_[i].mask /\ InvCount(i) = 1
          /\ lastEvent.type \notin ls_[j].mask /\ InvCount(j) = 0

\* The mask of slot i admits the topic of event e: the topic's bit is set, or
\* the topic has no bit.
Admits(i, e) == e.type >= 32 \/ e.type \in ls_[i].mask

\* C7: for a listener with a predicate whose mask admits the event, the
\* handler is invoked iff the predicate returns true; the predicate is
\* evaluated at most once per listener and event, and not at all when the
\* mask rejects the event.
C7_PredicateGating ==
    fresh =>
        \A i \in Slots :
            /\ PredCount(i) <= 1
            /\ (Live(i) /\ ls_[i].pred # "null")
                  => /\ Admits(i, lastEvent)
                        => /\ PredCount(i) = 1
                           /\ InvCount(i) = 1 <=> PredEval(ls_[i].pred, lastEvent)
                           /\ InvCount(i) <= 1
                     /\ ~Admits(i, lastEvent)
                        => PredCount(i) = 0 /\ InvCount(i) = 0

C7_Witness ==
    /\ fresh
    /\ \E i, j, k \in Slots :
          /\ Live(i) /\ ls_[i].pred # "null" /\ Admits(i, lastEvent)
          /\ PredEval(ls_[i].pred, lastEvent) /\ InvCount(i) = 1
          /\ Live(j) /\ ls_[j].pred # "null" /\ ~Admits(j, lastEvent)
          /\ PredCount(j) = 0
          /\ ls_[k].inUse /\ ls_[k].h = "null"

C7_WitnessFalse ==
    /\ fresh
    /\ \E i \in Slots :
          /\ Live(i) /\ ls_[i].pred # "null" /\ Admits(i, lastEvent)
          /\ ~PredEval(ls_[i].pred, lastEvent) /\ PredCount(i) = 1

\* C8: an event with topic >= 32 is received only by listeners that opted in
\* through the ALL mask or through a predicate that returns true.
C8_HighTopicsNeedOptIn ==
    (fresh /\ lastEvent.type >= 32) =>
        \A i \in Slots :
            InvCount(i) >= 1
                => \/ ls_[i].mask = MASK_ALL
                   \/ ls_[i].pred # "null" /\ PredEval(ls_[i].pred, lastEvent)

\* C9: a flow installed with when(topic, flow) (and still installed) is invoked
\* for a published event iff the event's topic is that topic.
C9_WhenFiltersByTopic ==
    fresh =>
        \A k \in 1..count_ :
            (subs_[k].h >= 0 /\ ls_[subs_[k].h].user = UserPair(k))
                => InvCount(subs_[k].h) = 1 <=> lastEvent.type = whenTopic[k]

\* C10: the listeners matching an event are invoked in ascending slot order;
\* subscribers registered with no unsubscribe in between are invoked in the
\* order of their registration.
C10_SlotOrder ==
    fresh =>
        /\ \A a, b \in DOMAIN invoked :
              a < b => invoked[a].slot < invoked[b].slot
        /\ ~unsubbed =>
              \A a, b \in DOMAIN invoked :
                  a < b => invoked[a].user < invoked[b].user

C10_Witness ==
    /\ fresh /\ ~unsubbed
    /\ Len(invoked) = 3
    /\ invoked[1].user = 1 /\ invoked[2].user = 2 /\ invoked[3].user = 3

C10_WitnessReuse ==
    /\ fresh /\ unsubbed
    /\ Len(invoked) >= 2
    /\ invoked[1].user > invoked[2].user

-----------------------------------------------------------------------------
(* Properties of flows at run time, checked under SpecComb *)

\* The slots whose handler publish(e) calls on the current table.
Matching(e) ==
    {i \in Slots : Live(i) /\ MaskPass(ls_[i], e) /\ PredPass(ls_[i], e)}

\* Entry k of the trace is the call (the return) of the handler of slot i in
\* fan-out pub.
IsEnter(k, i, pub) ==
    trace[k].op = "enter" /\ trace[k].slot = i /\ trace[k].pub = pub
IsExit(k, i, pub) ==
    trace[k].op = "exit" /\ trace[k].slot = i /\ trace[k].pub = pub

\* C11: a task-context publish returns only after every matching handler has
\* returned, the handlers run by publishes nested inside those handlers
\* included: every publish call has its return, all the handler calls of its
\* fan-out (one per matching slot) lie between the two, and a publish made
\* inside a handler has returned before that handler returns, hence before
\* the outer fan-out goes on to its next slot.
C11_SynchronousNestedPublish ==
    \A a \in DOMAIN trace :
        trace[a].op = "publish" =>
            \E b \in DOMAIN trace :
                /\ b > a /\ trace[b].op = "return"
                /\ trace[b].pub = trace[a].pub
                /\ \A i \in Matching(trace[a].e) :
                      \E x, y \in (a + 1)..(b - 1) :
                          /\ x < y
                          /\ IsEnter(x, i, trace[a].pub)
                          /\ IsExit(y, i, trace[a].pub)
                /\ \A z \in DOMAIN trace :
                      (trace[z].op \in {"enter", "exit"}
                         /\ trace[z].pub = trace[a].pub) => (a < z /\ z < b)
                /\ \A a2 \in (a + 1)..(b - 1) :
                      trace[a2].op = "publish" =>
                          \E x \in (a + 1)..(a2 - 1) :
                              /\ trace[x].op = "enter"
                              /\ trace[x].pub = trace[a].pub
                              /\ \E b2 \in (a2 + 1)..(b - 1) :
                                    /\ trace[b2].op = "return"
                                    /\ trace[b2].pub = trace[a2].pub
                                    /\ \E y \in (b2 + 1)..(b - 1) :
                                          IsExit(y, trace[x].slot, trace[a].pub)

\* Three publishes nested in each other, and the outermost fan-out going on
\* to a later slot after the nested publish returned.
C11_Witness ==
    /\ Len(trace) > 0
    /\ trace[1].op = "publish"
    /\ \E a2 \in DOMAIN trace :
          /\ trace[a2].op = "publish" /\ a2 > 1
          /\ \E a3 \in (a2 + 1)..Len(trace) :
                /\ trace[a3].op = "publish"
                /\ \A k \in 1..a3 : trace[k].op # "return"
                /\ \E b2 \in (a3 + 1)..Len(trace) :
                      /\ trace[b2].op = "return"
                      /\ trace[b2].pub = trace[a2].pub
                      /\ \E z \in (b2 + 1)..Len(trace) :
                            /\ trace[z].op = "enter"
                            /\ trace[z].pub = trace[1].pub

-----------------------------------------------------------------------------
(* Properties of async flows, checked under SpecAsync *)

\* The entries of the trace where the continuation of invocation k is called.
Conts(k) ==
    {x \in DOMAIN trace : trace[x].op \in {"onOk", "onErr"} /\ trace[x].inv = k}

\* C12: for each invocation of an async flow whose worker has returned ok
\* with output pointer P (its task has published the result and ended),
\* exactly one continuation has run, exactly once: onOk iff ok, onErr iff not
\* ok, called with an event whose payload pointer is P; before that, none.
C12_OneContinuationOnce ==
    \A k \in DOMAIN tasks :
        IF tasks[k].st = "exited"
        THEN /\ Cardinality(Conts(k)) = 1
             /\ \A x \in Conts(k) :
                   /\ trace[x].op = IF tasks[k].ok THEN "onOk" ELSE "onErr"
                   /\ trace[x].e.ptr = tasks[k].payload
        ELSE Conts(k) = {}

C12_Witness ==
    \E k, j \in DOMAIN tasks :
        /\ tasks[k].st = "exited" /\ tasks[k].ok /\ ~tasks[k].withEvent
        /\ tasks[k].payload # 0
        /\ tasks[j].st = "exited" /\ ~tasks[j].ok

\* C13: the continuations onOk and onErr are executed by the dispatcher task,
\* never by a worker task.
C13_ContinuationNotOnWorker ==
    \A x \in DOMAIN trace :
        trace[x].op \in {"onOk", "onErr"} => trace[x].task \notin DOMAIN tasks

\* C14: the Event passed to the worker of async_blocking_with_event has the
\* topic, inline scalar and payload pointer the trigger had when the flow was
\* invoked.
C14_WorkerSeesTrigger ==
    \A x \in DOMAIN trace :
        (trace[x].op = "worker" /\ tasks[trace[x].inv].withEvent) =>
            LET t == tasks[trace[x].inv].trigger
            IN /\ trace[x].e.type = t.type
               /\ trace[x].e.i32 = t.i32
               /\ trace[x].e.ptr = t.ptr

\* C15: invoking a flow leaves the topic, inline scalar, payload pointer and
\* release of its trigger unchanged: the event a flow handler leaves is the
\* event it was called with.
C15_FlowLeavesTrigger ==
    \A x \in DOMAIN trace :
        (trace[x].op = "enter" /\ ls_[trace[x].slot].h = "flow") =>
            \A y \in DOMAIN trace :
                (y > x /\ IsExit(y, trace[x].slot, trace[x].pub))
                    => trace[y].e = trace[x].e

\* Number of times the release ran on pointer p.
FreedCount(p) == Cardinality({k \in DOMAIN freed : freed[k].ptr = p})

\* C16: when the trigger of an async flow carries a payload with a release,
\* then over the whole round trip (the task has ended) the release has run
\* exactly once on the trigger's payload and never on the worker's output
\* pointer.
C16_TriggerReleasedOnce ==
    \A k \in DOMAIN tasks :
        (tasks[k].st = "exited" /\ tasks[k].trigger.ptr # 0
           /\ tasks[k].trigger.cleanup)
            => /\ FreedCount(tasks[k].trigger.ptr) = 1
               /\ FreedCount(tasks[k].payload) = 0

\* C17: the event passed to the continuation of an invocation has the topic
\* and inline scalar of that invocation's trigger and the payload pointer its
\* worker produced, also with several invocations in flight at once.
C17_ShadowBelongsToInvocation ==
    \A x \in DOMAIN trace :
        trace[x].op \in {"onOk", "onErr"} =>
            LET t == tasks[trace[x].inv]
            IN /\ trace[x].e.type = t.trigger.type
               /\ trace[x].e.i32 = t.trigger.i32
               /\ trace[x].e.ptr = t.payload

\* Two invocations with different triggers in flight at the same time, whose
\* continuations have both run, the one spawned later first.
C17_Witness ==
    /\ Len(tasks) >= 2
    /\ tasks[1].trigger.i32 # tasks[2].trigger.i32
    /\ tasks[1].st = "exited" /\ tasks[2].st = "exited"
    /\ \E x \in Conts(1), y \in Conts(2) : y < x

\* Scenario S1: the wiring, one event {WIFI_CONNECTED, 0, null} published, both
\* workers succeeded and ended.
S1Wiring ==
    /\ asyncRouter_ >= 0
    /\ store = <<MdnsFlow, MqttFlow>>
    /\ whenTopic = <<TOPIC_WIFI_CONNECTED, TOPIC_MDNS_FOUND>>
    /\ \E i \in Slots : Live(i) /\ ls_[i].h = "handler"
S1Done ==
    /\ S1Wiring
    /\ trigCount = 1 /\ trace[1].e.type = TOPIC_WIFI_CONNECTED
    /\ Len(tasks) = 2
    /\ \A k \in DOMAIN tasks : tasks[k].st = "exited" /\ tasks[k].ok

\* What the subscriber with the ALL mask has observed, in order.
IsObservation(x) == x.op = "enter" /\ ls_[x.slot].h = "handler"
Observed == SelectSeq(trace, IsObservation)
ObservedTopics == [k \in DOMAIN Observed |-> Observed[k].e.type]

S1Topics ==
    <<TOPIC_WIFI_CONNECTED, TOPIC__ASYNC_RESULT, TOPIC_MDNS_FOUND,
      TOPIC__ASYNC_RESULT, TOPIC_MQTT_CONNECTED>>

\* The subscriber was registered before the FlowGraph was constructed.
ObserverFirst == \E i \in Slots : ls_[i].h = "handler" /\ i < asyncRouter_

-----------------------------------------------------------------------------
(* FlowGraph teardown, checked under SpecLife *)

\* The slots that hold a registration made by the FlowGraph.
GraphSlots ==
    {i \in Slots : ls_[i].inUse
                     /\ ls_[i].h \in {"asyncRouterHandler", "placeholder",
                                      "flow"}}

\* C19: after the FlowGraph is destroyed no slot of the bus holds a
\* registration the graph made (neither the async router nor a flow
\* installed by when), and every stored Flow has been deleted exactly once;
\* before that no stored Flow has been deleted.
C19_TeardownReleasesEverything ==
    /\ fgDestroyed =>
         /\ GraphSlots = {}
         /\ \A k \in DOMAIN deleted : deleted[k] = 1
    /\ ~fgDestroyed => \A k \in DOMAIN deleted : deleted[k] = 0

\* A graph with a router and two installed flows was destroyed, and a
\* listener of user code is still registered.
C19_Witness ==
    /\ fgDestroyed
    /\ asyncRouter_ >= 0
    /\ Len(deleted) = 2
    /\ \A i \in DOMAIN subs_ : subs_[i].h >= 0
    /\ \E i \in Slots : ls_[i].inUse /\ ls_[i].h = "handler"

\* C31: the destructor of the FlowGraph leaves every slot that holds a
\* listener of user code as it was.
C31_TeardownKeepsForeignListeners ==
    [][(fgAlive /\ ~fgAlive')
         => \A i \in Slots :
              (ls_[i].inUse /\ ls_[i].h = "handler") => ls_'[i] = ls_[i]]_vars

\* C34: a when call that returns -1 leaves the listener table and the
\* graph's count of installed flows as they were.  (The call is the step
\* that stores a Flow; the handle it returns is the one put in subs_.)
C34_FailedWhenHasNoEffect ==
    [][(Len(store') = Len(store) + 1 /\ subs_'[Len(subs_')].h = -1)
         => (ls_' = ls_ /\ count_' = count_)]_vars

-----------------------------------------------------------------------------
(* Mutation during a fan-out, checked under SpecRace *)

\* C20: every handler invocation of a fan-out uses a handler, user pointer,
\* mask and predicate that together are one registration subscribe made for
\* that slot, and is not made after the unsubscribe of that handle has
\* returned.
C20_MutationAppearsAtomic ==
    \A k \in DOMAIN used :
        /\ used[k].user \in DOMAIN history
        /\ history[used[k].user] =
             [slot |-> used[k].slot, h |-> used[k].h, user |-> used[k].user,
              mask |-> used[k].mask, pred |-> used[k].pred]
        /\ ~used[k].late

-----------------------------------------------------------------------------
(* Registry exhaustion, checked under SpecLife *)

\* The lowest free slot of the table, -1 when there is none.
LowestFree ==
    IF \A i \in Slots : ls_[i].inUse THEN -1
    ELSE CHOOSE i \in Slots : ~ls_[i].inUse /\ \A j \in 0..(i - 1) : ls_[j].inUse

\* C21: a subscribe call registers the listener in the lowest-index free
\* slot and leaves the other slots unchanged, and when every slot is in use
\* it leaves the whole table unchanged; the handle when got from subscribe
\* and stored in subs_ is that slot, and -1 when every slot is in use.
C21_SubscribeLowestFreeOrFail ==
    [][/\ regCount' = regCount + 1 =>
            IF LowestFree = -1 THEN ls_' = ls_
            ELSE /\ ls_'[LowestFree].inUse
                 /\ ls_'[LowestFree].user = regCount'
                 /\ \A j \in Slots \ {LowestFree} : ls_'[j] = ls_[j]
       /\ count_' = count_ + 1 =>
            /\ subs_'[count_'].h = LowestFree
            /\ LowestFree = -1 => ls_' = ls_]_vars

\* The table is full of listeners, a when got a slot and a later when got
\* -1 from subscribe.
C21_Witness ==
    /\ \A i \in Slots : ls_[i].inUse
    /\ \E i \in DOMAIN subs_ : subs_[i].h = -1
    /\ \E i \in DOMAIN subs_ : subs_[i].h >= 0

-----------------------------------------------------------------------------
(* Init failure, checked under SpecQ *)

\* C22: once begin has returned, it returned true exactly when the queue
\* was created and the dispatcher task exists; when it returned false there
\* is no dispatcher task: nothing is ever dequeued for a fan-out.
C22_BeginReportsBothCreations ==
    begun =>
      /\ beginOk <=> (q_ = "created" /\ task_)
      /\ ~beginOk => (~task_ /\ delivered = <<>> /\ dpc = "recv")

\* begin returned false because the task could not be created; the queue
\* exists and a producer has placed an event in it.
C22_Witness ==
    begun /\ ~beginOk /\ q_ = "created" /\ Len(queue) > 0

-----------------------------------------------------------------------------
(* Event ownership, checked under SpecEvent *)

\* The last operation made object x a copy of object y, which held a
\* payload.
Transferred ==
    lastOp.op \in {"copy", "assign"} /\ lastOp.yBefore.ptr # 0

\* After a copy or an assignment from a source with a payload the
\* destination holds that payload and release, the source holds neither.
TransferClearsSource ==
    Transferred =>
      /\ evs[lastOp.x].ptr = lastOp.yBefore.ptr
      /\ evs[lastOp.x].cleanup = lastOp.yBefore.cleanup
      /\ evs[lastOp.y].ptr = 0
      /\ ~evs[lastOp.y].cleanup

\* No payload has been released more than once.
AtMostOnce == \A k, l \in DOMAIN freed : freed[k].ptr = freed[l].ptr => k = l

\* C23: a copy or an assignment from a source holding a payload moves
\* payload and release to the destination and clears both in the source;
\* an assignment runs the release of the payload the destination held,
\* once; no payload is released more than once.
C23_CopyAssignTransfers ==
    /\ TransferClearsSource
    /\ (lastOp.op = "assign" /\ lastOp.xBefore.ptr # 0
          /\ lastOp.xBefore.cleanup)
         => lastOp.ran = <<lastOp.xBefore.ptr>>
    /\ AtMostOnce

\* C23, amended: as above, but the assignment runs the release of the
\* destination's previous payload once when the destination's auto_cleanup
\* is on, and does not run it when it is off.
C23_CopyAssignTransfersAutoOn ==
    /\ TransferClearsSource
    /\ (lastOp.op = "assign" /\ lastOp.xBefore.ptr # 0
          /\ lastOp.xBefore.cleanup)
         => lastOp.ran = IF lastOp.xBefore.auto_cleanup
                         THEN <<lastOp.xBefore.ptr>> ELSE <<>>
    /\ AtMostOnce

\* An object holding a payload with automatic cleanup was assigned another
\* object's payload, and the payload it held before was released there.
C23_Witness ==
    /\ lastOp.op = "assign"
    /\ lastOp.xBefore.ptr # 0 /\ lastOp.xBefore.cleanup
    /\ lastOp.xBefore.auto_cleanup
    /\ lastOp.yBefore.ptr # 0 /\ lastOp.yBefore.cleanup
    /\ freed = <<[ptr |-> lastOp.xBefore.ptr, site |-> "assign"]>>
    /\ evs[lastOp.x].ptr = lastOp.yBefore.ptr

\* C24: every Event object that has a null payload has a null release.
C24_NullPayloadNullRelease ==
    \A x \in DOMAIN evs : evs[x].ptr = 0 => ~evs[x].cleanup

\* C25: destroying an event whose auto_cleanup is off runs no release;
\* manual_cleanup on an event with payload and release runs that release,
\* which is then the only release of the payload; a manual_cleanup or a
\* destruction of an object manual_cleanup was called on before runs none.
C25_ManualCleanupOnceIdempotent ==
    /\ (lastOp.op = "destroy" /\ ~lastOp.xBefore.auto_cleanup)
         => lastOp.ran = <<>>
    /\ (lastOp.op = "manual" /\ lastOp.xBefore.cleanup
          /\ lastOp.xBefore.ptr # 0)
         => /\ lastOp.ran = <<lastOp.xBefore.ptr>>
            /\ Cardinality({k \in DOMAIN freed :
                              freed[k].ptr = lastOp.xBefore.ptr}) = 1
    /\ (lastOp.op \in {"manual", "destroy"} /\ lastOp.was)
         => lastOp.ran = <<>>

\* An object with payload, release and auto_cleanup on was cleaned manually
\* and then destroyed: the release ran once, in manual_cleanup.
C25_Witness ==
    /\ lastOp.op = "destroy"
    /\ lastOp.was
    /\ lastOp.xBefore.cleanup /\ lastOp.xBefore.auto_cleanup
    /\ Len(freed) = 1 /\ freed[1].site = "manual"

\* An event whose auto_cleanup was switched off was destroyed while it held
\* a payload and a release.
C25_WitnessDisabled ==
    /\ lastOp.op = "destroy"
    /\ ~lastOp.xBefore.auto_cleanup
    /\ lastOp.xBefore.cleanup /\ lastOp.xBefore.ptr # 0

-----------------------------------------------------------------------------
(* The async router, checked under SpecGraphs *)

\* The calls of a router made by the fan-outs.
RouterEntries ==
    {k \in DOMAIN trace : /\ trace[k].op = "enter"
                          /\ ls_[trace[k].slot].h = "asyncRouterHandler"}

\* C26: every call of the async router is for an event of topic
\* ASYNC_RESULT whose ptr is the ResultPack a worker task created.
C26_RouterOnlyForAsyncResult ==
    \A k \in RouterEntries :
        /\ trace[k].e.type = TOPIC__ASYNC_RESULT
        /\ \E j \in DOMAIN tasks : trace[k].e.ptr = PackPtr(j)

\* C27: with two FlowGraphs on the bus, both with a registered router,
\* every publish of an ASYNC_RESULT event calls exactly one router, no
\* router is called with a pack that was deleted, and every invocation
\* whose worker task has ended had one continuation call and one delete of
\* its AsyncCtx.
C27_OneRouterPerResult ==
    (fgAlive /\ fg2.alive /\ asyncRouter_ >= 0 /\ fg2.asyncRouter_ >= 0) =>
      /\ \A p \in DOMAIN trace :
           (trace[p].op = "publish" /\ trace[p].e.type = TOPIC__ASYNC_RESULT)
             => Cardinality({k \in RouterEntries :
                               trace[k].pub = trace[p].pub}) = 1
      /\ \A k \in DOMAIN trace :
           trace[k].op = "wild" => trace[k].e.type # TOPIC__ASYNC_RESULT
      /\ \A j \in DOMAIN tasks :
           tasks[j].st = "exited" =>
             Cardinality(Conts(j)) = 1 /\ tasks[j].ctxDeleted = 1

-----------------------------------------------------------------------------
(* begin called again, checked under SpecBegin *)

\* C32: whatever number of begin calls was made on the bus, at most one
\* dispatch queue has been created for it and at most one dispatcher task
\* has been started.
C32_OneQueueOneDispatcher ==
    beginLog.queues <= 1 /\ beginLog.tasks <= 1

-----------------------------------------------------------------------------
(* The drop-oldest path against the dispatcher, checked under SpecQ *)

\* C29: a step in which dropOldestEvent / dropOldestEventFromISR takes an
\* event out of the queue starts in a state where the queue is full.
C29_DropOnlyWhenFull ==
    [][\A p \in Producers :
          (pc[p] = "drop" /\ pc'[p] = "retry" /\ queue' # queue)
            => Len(queue) = QueueLen]_vars

-----------------------------------------------------------------------------
(* Concurrent subscribe calls, checked under SpecSub2 *)

\* C30: when the subscribe calls of both tasks have returned a handle, the
\* two handles differ and each slot holds the registration of the task
\* that got its handle.
C30_ConcurrentSubscribesDistinct ==
    (\A t \in Scanners : scan[t].pc = "done" /\ scan[t].ret >= 0)
      => /\ \A t, u \in Scanners : t # u => scan[t].ret # scan[u].ret
         /\ \A t \in Scanners :
              /\ ls_[scan[t].ret].inUse
              /\ ls_[scan[t].ret].user = ScanUser(t)

-----------------------------------------------------------------------------
(* when against concurrent subscribe calls, checked under SpecWhen2 *)

\* C33: once when has returned a handle h >= 0, slot h holds the flow
\* handler registered by that call, no slot holds the placeholder, and the
\* listeners other than those of the subscribing tasks are one more than
\* when the call was entered.
C33_WhenAddsOneListener ==
    (wh.pc = "done" /\ wh.h >= 0)
      => /\ ls_[wh.h].inUse
         /\ ls_[wh.h].h = "flow"
         /\ ls_[wh.h].user = UserPair(count_)
         /\ \A i \in Slots : ~(ls_[i].inUse /\ ls_[i].h = "placeholder")
         /\ Cardinality(OwnListeners) = wh.before + 1

-----------------------------------------------------------------------------
(* The operators, checked under SpecOps.  A run of an installed flow is the *)
(* part of the trace between the call of its handler and the return of     *)
(* that call; what the flow did itself are the entries of that part that   *)
(* do not lie inside the call of another handler.                          *)

\* The flow whose handler sits in slot s.
FlowAt(s) == store[ls_[s].user - UserPair(0)]

\* The calls of the handler of flow f.
RunsOf(f) ==
    {i \in DOMAIN trace :
        /\ trace[i].op = "enter"
        /\ ls_[trace[i].slot].h = "flow"
        /\ FlowAt(trace[i].slot) = f}

\* The return of the handler call i.
ExitOf(i) ==
    CHOOSE j \in (i + 1)..Len(trace) : IsExit(j, trace[i].slot, trace[i].pub)

\* What the flow called at i did itself, and the part of it that is op.
Direct(i) ==
    {m \in (i + 1)..(ExitOf(i) - 1) :
        /\ trace[m].op \notin {"enter", "exit"}
        /\ \A a \in (i + 1)..(m - 1) :
              trace[a].op = "enter" => ExitOf(a) < m}
DirectWith(i, op) == {m \in Direct(i) : trace[m].op = op}

\* C35: a run of branch(pred, on_true, on_false) calls pred once, with the
\* trigger, and runs one of the two flows: on_true (publish MDNS_FOUND 1)
\* when the trigger's i32 exceeds 100 and on_false (publish MDNS_FAILED 0)
\* when not.
C35_BranchRunsOneSide ==
    \A i \in RunsOf(BranchFlow) :
        /\ Cardinality(DirectWith(i, "pred")) = 1
        /\ \A m \in DirectWith(i, "pred") : trace[m].e = trace[i].e
        /\ Cardinality(DirectWith(i, "publish")) = 1
        /\ DirectWith(i, "tap") = {}
        /\ \A m \in DirectWith(i, "publish") :
              trace[m].e = IF trace[i].e.i32 > 100
                           THEN MkEvent(TOPIC_MDNS_FOUND, 1, 0, FALSE)
                           ELSE MkEvent(TOPIC_MDNS_FAILED, 0, 0, FALSE)

\* The branch flow has run for a trigger above 100 and for one below.
C35_Witness ==
    \E i, k \in RunsOf(BranchFlow) :
        trace[i].e.i32 > 100 /\ trace[k].e.i32 <= 100

\* C36: a run of seq(a, b) with a = publish(MDNS_FOUND, 1) and b = tap
\* consists of the publish of a, all of its fan-out with the publishes
\* nested in it, the return of that publish, and then the tap of b, called
\* with the trigger, as the last thing before the handler returns.  A run
\* of tee(a, b) with a = tap and b = publish(MQTT_CONNECTED, 2) is the tap,
\* called with the trigger, and then the publish of b and its return.  In
\* every state and for every trigger, running tee(a, b) has the effects of
\* running seq(a, b).
C36_SeqRunsLeftThenRight ==
    /\ \A i \in RunsOf(SeqFlow) :
          \E p, r, t \in Direct(i) :
              /\ Direct(i) = {p, r, t}
              /\ p = i + 1 /\ p < r /\ r < t /\ t = ExitOf(i) - 1
              /\ trace[p].op = "publish"
              /\ trace[p].e = MkEvent(TOPIC_MDNS_FOUND, 1, 0, FALSE)
              /\ trace[r].op = "return" /\ trace[r].pub = trace[p].pub
              /\ trace[t].op = "tap" /\ trace[t].e = trace[i].e
    /\ \A i \in RunsOf(TeeFlow) :
          \E t, p, r \in Direct(i) :
              /\ Direct(i) = {t, p, r}
              /\ t = i + 1 /\ p = t + 1 /\ p < r /\ r = ExitOf(i) - 1
              /\ trace[t].op = "tap" /\ trace[t].e = trace[i].e
              /\ trace[p].op = "publish"
              /\ trace[p].e = MkEvent(TOPIC_MQTT_CONNECTED, 2, 0, FALSE)
              /\ trace[r].op = "return" /\ trace[r].pub = trace[p].pub
    /\ \A e \in OpsTriggers :
          RunFlow(tee(PublishFlow, TapFlow), e, World,
                  [task |-> CALLER, ls |-> ls_])
            = RunFlow(seq(PublishFlow, TapFlow), e, World,
                      [task |-> CALLER, ls |-> ls_])

\* The seq flow has run, and inside the fan-out of the event its first
\* flow published, another flow and the catch-all subscriber were called
\* and that flow published again.
C36_Witness ==
    \E i \in RunsOf(SeqFlow) :
        /\ \E m \in (i + 1)..(ExitOf(i) - 1) :
              trace[m].op = "publish" /\ m \notin Direct(i)
        /\ \E m \in (i + 1)..(ExitOf(i) - 1) :
              trace[m].op = "enter" /\ ls_[trace[m].slot].h = "handler"

\* The tee flow has run, for a trigger that owns a payload.
C36_WitnessTee ==
    \E i \in RunsOf(TeeFlow) : trace[i].e.ptr # 0

\* The calls of the catch-all subscriber's handler.
ObserverCalls ==
    {m \in DOMAIN trace :
        trace[m].op = "enter" /\ ls_[trace[m].slot].h = "handler"}

\* C37: a run of tap(fn) is one call of fn with the trigger event and
\* nothing else: no publish, nothing between the call of the handler and
\* its return but that call.  When the tap is the only flow installed the
\* catch-all subscriber is called for the published triggers only.
C37_TapCallsOnceNeverPublishes ==
    /\ \A i \in RunsOf(TapFlow) :
          /\ ExitOf(i) = i + 2
          /\ trace[i + 1].op = "tap"
          /\ trace[i + 1].e = trace[i].e
          /\ trace[ExitOf(i)].e = trace[i].e
    /\ (\A k \in DOMAIN store : store[k] = TapFlow)
          => \A m \in ObserverCalls : trace[m].e \in OpsTriggers

\* The tap has run twice, once for a trigger that owns a payload, and the
\* catch-all subscriber was called.
C37_Witness ==
    /\ \E i, k \in RunsOf(TapFlow) :
          i # k /\ trace[i].e.ptr # 0 /\ trace[k].e.ptr = 0
    /\ \A k \in DOMAIN store : store[k] = TapFlow
    /\ ObserverCalls # {}

\* C38: a run of filter(pred, then) with then = publish(MDNS_FOUND, 42)
\* calls the predicate and, when the trigger's i32 exceeds 100, publishes
\* that event once; when not, the call of the predicate is all that lies
\* between the call of the handler and its return.  In every state and for
\* every trigger, running filter(pred, then) gives the event and the world
\* that running branch(pred, then, no-op) gives.
C38_FilterIsBranchWithNoop ==
    /\ \A i \in RunsOf(FilterFlow) :
          /\ Cardinality(DirectWith(i, "pred")) = 1
          /\ DirectWith(i, "tap") = {}
          /\ IF trace[i].e.i32 > 100
             THEN /\ Cardinality(DirectWith(i, "publish")) = 1
                  /\ \A m \in DirectWith(i, "publish") :
                        trace[m].e = MkEvent(TOPIC_MDNS_FOUND, 42, 0, FALSE)
             ELSE ExitOf(i) = i + 2
    /\ \A e \in OpsTriggers :
          RunFlow(filter("gt100", publish(TOPIC_MDNS_FOUND, 42, 0)), e,
                  World, [task |-> CALLER, ls |-> ls_])
            = RunFlow(branch("gt100", publish(TOPIC_MDNS_FOUND, 42, 0),
                             noop), e,
                      World, [task |-> CALLER, ls |-> ls_])

\* The filter flow has run for a trigger above 100 and for one below, with
\* a flow installed on the topic it publishes.
C38_Witness ==
    /\ \E i, k \in RunsOf(FilterFlow) :
          trace[i].e.i32 > 100 /\ trace[k].e.i32 <= 100
    /\ \E k \in DOMAIN store : store[k] = NestedFlow

-----------------------------------------------------------------------------
(* The result event of a worker task, checked under SpecAsync *)

\* The publish calls worker task k made with an ASYNC_RESULT event.
ResultPublishes(k) ==
    {m \in DOMAIN trace :
        /\ trace[m].op = "publish"
        /\ trace[m].task = k
        /\ trace[m].e.type = TOPIC__ASYNC_RESULT}

\* C40: a worker task that has run has ended, and it has published one
\* ASYNC_RESULT event, right after its worker function returned: the
\* scalar is 1 when the function returned true and 0 when not, the payload
\* is the ResultPack of that invocation, which holds the pointer the
\* function wrote, and the event has no release.  A task that has not run
\* has published none.
C40_WorkerPublishesOneResult ==
    \A k \in DOMAIN tasks :
        IF tasks[k].st = "created" THEN ResultPublishes(k) = {}
        ELSE /\ tasks[k].st = "exited"
             /\ Cardinality(ResultPublishes(k)) = 1
             /\ tasks[k].payload = OutPtr(k)
             /\ \A m \in ResultPublishes(k) :
                   /\ trace[m].e.i32 = (IF tasks[k].ok THEN 1 ELSE 0)
                   /\ trace[m].e.ptr = PackPtr(k)
                   /\ ~trace[m].e.cleanup
                   /\ m > 1
                   /\ trace[m - 1].op = "worker" /\ trace[m - 1].inv = k

\* Two worker tasks have run, one whose function returned true and one
\* whose function returned false, and the router has called onErr.
C40_Witness ==
    /\ \E j, k \in DOMAIN tasks :
          /\ tasks[j].st = "exited" /\ tasks[j].ok
          /\ tasks[k].st = "exited" /\ ~tasks[k].ok
    /\ \E m \in DOMAIN trace : trace[m].op = "onErr"

-----------------------------------------------------------------------------
(* Completion of async invocations, checked under SpecAsyncFair *)

\* C28: every invocation of an async flow whose worker task has run and
\* ended is eventually followed by one run of a continuation and by the
\* delete of its AsyncCtx.
C28_InvocationCompletes ==
    \A k \in 1..MaxTasks :
        (k \in DOMAIN tasks /\ tasks[k].st = "exited")
          ~> (/\ k \in DOMAIN tasks
              /\ Cardinality(Conts(k)) = 1
              /\ tasks[k].ctxDeleted = 1)

=============================================================================
